---- MODULE Spec2Model ----
(***************************************************************************)
(* A model of the batch dispatcher (SymbolService.executeBatches), the     *)
(* confirmation tracker (SymbolService.listenTxs / waitTxsFor) and the     *)
(* undead transaction protocol (NecromancyService) of symbol-service.      *)
(*                                                                         *)
(* Scheduling is the JavaScript event loop: one action is one task, i.e.   *)
(* the arrival of a network response or of an event-stream message and     *)
(* everything the program runs synchronously or in micro-tasks because of  *)
(* it (promise continuations included).                                    *)
(***************************************************************************)
EXTENDS Integers, Sequences, FiniteSets, TLC

\* ----------------------------------------------------------------- bounds
MaxBatches == 3
MaxWorkers == 2
MaxHashes == 2
MaxTotalHours == 11
MaxClockHours == 6
MaxPickHours == 24

\* -------------------------------------------------------------- constants
\* NecromancyService.config
deadlineUnitHours == 5
deadlineMarginHours == 1
\* createTx: "Number of inner transactions must be 99 or less."
maxInnerTxs == 99
\* SymbolService.config
deadline_hours == 2
batch_size == 100
\* the operation lists given to the batch builders have up to MaxOps entries
\* (or about batch_size), the batch sizes go up to MaxBatchSize (or about batch_size)
MaxOps == 4
MaxBatchSize == 3
\* how far a loop that makes no progress is followed
MaxLoops == 3
\* the payloads merged have up to 8 * MaxPayloadWords bytes and get up to
\* MaxCosignatures cosignatures
MaxPayloadWords == 33
MaxCosignatures == 2
\* the operations that call getNetwork, and the fetches followed
MaxCallers == 3
MaxFetches == 3
\* the longer lifetime of the undead transactions that share a network
MaxLockHours == 6

\* ------------------------------------------------------------------ state
VARIABLES
    \* --- executeBatches(batches, signerAccount, maxParallel)
    batches,        \* the input: <<1, .., n>>, a batch is named by its index
    maxParallel,    \* the input maxParallel
    txPool,         \* const txPool = [...batches]
    listener,       \* "none" | "open" | "closed": the call's event stream
    opens,          \* how often listener.open() was called
    closes,         \* how often listener.close() was called
    pc,             \* each worker's position in its loop
    cur,            \* each worker's current batch (0: none)
    sub,            \* each worker: its listenTxs watchers are subscribed
    evt,            \* each worker: an event-stream message on its way
    promise,        \* each worker's promise (workers[i])
    call,           \* the promise executeBatches returns
    ledger,         \* the network: each batch's transaction status
    announced,      \* the network: how often each batch was announced
    \* --- history of the call (read by the properties only)
    handed,         \* each batch: the workers that popped it
    firstFail,      \* each worker: the first batch whose wait reported an error
    observed,       \* each batch: what a worker's wait reported for it
    popsAfterFail,  \* each worker: batches popped after its first error
    lateAnnounce,   \* a batch was announced after listener.close()
    lateSubscribe,  \* watchers were subscribed after listener.close()
    inFlightAtFail, \* batches other workers held when a worker saw an error
    lookupFault,    \* a one-shot lookup request failed (and was caught)
    \* --- waitTxsFor(account, txHashes, group) / listenTxs
    txHashes,       \* the input: the hashes awaited, in request order
    group,          \* the input: "confirmed" | "partial" | "all"
    stream,         \* "none" | "open" | "closed": the listener of the call
    streamOpens,    \* how often listener.open() was called
    streamCloses,   \* how often listener.close() was called
    subscriptions,  \* each requested hash: the state of its watchers
    unsubscribed,   \* each requested hash: unsubscribe() calls per watcher
    lookup,         \* each requested hash: the one-shot lookup in flight
    promises,       \* each requested hash: its promise
    waitCall,       \* the promise waitTxsFor returns
    status,         \* the network: each hash's transaction status
    messages,       \* the event stream: messages on their way to the client
    \* --- history of the wait (read by the properties only)
    firstSeen,      \* each requested hash: the first terminal condition seen
    lateSeen,       \* each requested hash: a terminal condition was seen later
    waitFault,      \* a request or a stream of the call has failed
    watchersAtClose,\* the watchers still subscribed when listener.close() ran
    \* --- NecromancyService: one undead transaction and the network it is cast on
    clock,          \* the time, in ticks since the network's epoch adjustment
    undeadTx,       \* the AggregateUndeadTransaction (createTx / cosignTx)
    casted,         \* what the last pickAndCastTx returned ({}: undefined)
    mempool,        \* the network: transactions announced, not yet settled
    chainLocks,     \* the network: account metadata written (source, target, key)
    chainConfirmed, \* the network: hashes of confirmed transactions
    chainFailed,    \* the network: hashes that were given a failure status
    \* --- NecromancyService: the calls that build, extend and store it
    built,          \* history: the arguments and the signTx calls of the last createTx
    thrown,         \* the error the last createTx threw ("none": it returned)
    cosignArg,      \* history: the argument of the last cosignTx, before and after it
    json,           \* what the last toJSON returned (source: history, the value it was called on)
    restored,       \* what the last createFromJSON returned (source: history)
    \* --- the batch builders (buildAggregateCompleteTxBatches, buildTxBatches)
    batcher,        \* the call in progress: its arguments, txPool, batches and outcome
    \* --- createSignedTxWithCosignatures
    signedTx,       \* the SignedTransaction passed in
    cosignatureSignedTxs, \* the cosignatures passed in
    merged,         \* the SignedTransaction returned (NoSignedTx: not called)
    moreCosignatureSignedTxs, \* the cosignatures of a second call, on the result of the first
    remerged,       \* the SignedTransaction the second call returned
    \* --- a second undead transaction on the same network
    rival,          \* the AggregateUndeadTransaction of another createTx call
    rivalKey,       \* history: the lock key (nonce) that call was given
    \* --- getNetwork: the local cache and the calls in progress
    network,        \* this.network (NoNetwork: null)
    netCall,        \* each caller's call of getNetwork: its position and its value
    fetches,        \* history: the fetches from the node that were started
    fetchFailures,  \* history: the fetches that failed
    handedOut       \* history: the contexts the calls have returned

dvars == <<batches, maxParallel, txPool, listener, opens, closes, pc, cur, sub,
           evt, promise, call, ledger, announced>>
hvars == <<handed, firstFail, observed, popsAfterFail, lateAnnounce, lateSubscribe,
           inFlightAtFail, lookupFault>>
lvars == <<txHashes, group, stream, streamOpens, streamCloses, subscriptions,
           unsubscribed, lookup, promises, waitCall, status, messages, firstSeen,
           lateSeen, waitFault, watchersAtClose>>
uvars == <<clock, undeadTx, casted, mempool, chainLocks, chainConfirmed, chainFailed>>
bvars == <<built, thrown, cosignArg, json, restored>>
kvars == <<batcher>>
mvars == <<signedTx, cosignatureSignedTxs, merged, moreCosignatureSignedTxs, remerged>>
rvars == <<rival, rivalKey>>
gvars == <<network, netCall, fetches, fetchFailures, handedOut>>
vars == <<dvars, hvars, lvars, uvars, bvars, kvars, mvars, rvars, gvars>>

\* Worker slots; the for loop fills the first maxParallel of them.
Workers == 1..(MaxWorkers + 1)
Batches == 1..MaxBatches

\* A promise: pending, resolved with undefined, resolved with a list of error
\* records, or rejected.
Pending == [settled |-> FALSE, undef |-> FALSE, errors |-> <<>>, rejected |-> FALSE]
Undefined == [settled |-> TRUE, undef |-> TRUE, errors |-> <<>>, rejected |-> FALSE]
Errors(es) == [settled |-> TRUE, undef |-> FALSE, errors |-> es, rejected |-> FALSE]
Rejected == [settled |-> TRUE, undef |-> FALSE, errors |-> <<>>, rejected |-> TRUE]

\* { txHash, error } as listenTxs resolves it for a failed transaction
ErrorRecord(b) == [txHash |-> b, error |-> "Failure"]

\* for (let i = 0; i < maxParallel; i++): the workers the loop creates
NumWorkersOffByOne == IF maxParallel >= 0 THEN maxParallel + 1 ELSE 0
NumWorkers == IF maxParallel > 0 THEN maxParallel ELSE 0
Spawned == 1..NumWorkers

\* const nextBatch = () => txPool.splice(0, 1).shift(): the batch returned
nextBatch(pool) == IF pool = <<>> THEN 0 ELSE Head(pool)
\* ... and the pool it leaves (slice instead of splice would leave it as is)
poolAfterSlice(pool) == pool
poolAfterPop(pool) == IF pool = <<>> THEN pool ELSE Tail(pool)

\* resolve(value) on a worker's promise: only the first call settles it
resolveLastWins(p, value) == value
resolve(p, value) == IF p.settled THEN p ELSE value

RECURSIVE concatFrom(_, _)
concatFrom(ps, i) ==
    IF i > NumWorkers THEN <<>>
    ELSE (IF ps[i].undef THEN <<>> ELSE ps[i].errors) \o concatFrom(ps, i + 1)

RECURSIVE concatReversed(_, _)
concatReversed(ps, i) ==
    IF i > NumWorkers THEN <<>>
    ELSE concatReversed(ps, i + 1) \o (IF ps[i].undef THEN <<>> ELSE ps[i].errors)

\* workerErrors.filter((error) => error)
\*     .reduce((acc, curr) => [...(acc || []), ...(curr || [])], undefined)
reduceErrorsReversed(ps) ==
    IF \A w \in Spawned : ps[w].undef THEN Undefined ELSE Errors(concatReversed(ps, 1))
reduceErrors(ps) ==
    IF \A w \in Spawned : ps[w].undef THEN Undefined ELSE Errors(concatFrom(ps, 1))

\* Promise.all(workers).then(...).finally(() => listener.close()): runs in the
\* micro-tasks of the task that settles the last worker promise.
Complete(ps) ==
    IF ~call.settled /\ \A w \in Spawned : ps[w].settled
    THEN /\ call' = reduceErrors(ps)
         /\ listener' = "closed"
         /\ closes' = closes + 1
    ELSE UNCHANGED <<call, listener, closes>>

\* ------------------------------------------------- executeBatches: actions
Awaiting == {"status", "confirmedLookup", "wait"}
Busy == {"announce", "announced"} \cup Awaiting

InitDispatcher ==
    /\ \E n \in 0..MaxBatches : batches = [i \in 1..n |-> i]
    /\ maxParallel \in (-1)..MaxWorkers
    /\ txPool = <<>>
    /\ listener = "none"
    /\ opens = 0
    /\ closes = 0
    /\ pc = [w \in Workers |-> "idle"]
    /\ cur = [w \in Workers |-> 0]
    /\ sub = [w \in Workers |-> FALSE]
    /\ evt = [w \in Workers |-> "none"]
    /\ promise = [w \in Workers |-> Pending]
    /\ call = Pending
    /\ ledger = [b \in Batches |-> "none"]
    /\ announced = [b \in Batches |-> 0]
    /\ handed = [b \in Batches |-> {}]
    /\ firstFail = [w \in Workers |-> 0]
    /\ observed = [b \in Batches |-> "none"]
    /\ popsAfterFail = [w \in Workers |-> 0]
    /\ lateAnnounce = FALSE
    /\ lateSubscribe = FALSE
    /\ inFlightAtFail = {}
    /\ lookupFault = FALSE

\* The pool after the first k workers have run their loop header.
RECURSIVE poolAt(_)
poolAt(k) == IF k = 0 THEN batches ELSE poolAfterPop(poolAt(k - 1))

\* await getNetwork(); await listener.open(); then the for loop creates the
\* workers: each promise executor runs synchronously up to its first await, so
\* worker i pops its first batch (or finds the pool empty) as it is created.
Start ==
    /\ UNCHANGED <<lvars, uvars, bvars, kvars, mvars, rvars, gvars>>
    /\ listener = "none" /\ ~call.settled
    /\ opens' = opens + 1
    /\ txPool' = poolAt(NumWorkers)
    /\ cur' = [w \in Workers |-> IF w \in Spawned THEN nextBatch(poolAt(w - 1)) ELSE 0]
    /\ pc' = [w \in Workers |->
                IF w \in Spawned
                THEN (IF cur'[w] # 0 THEN "announce" ELSE "done")
                ELSE "idle"]
    /\ promise' = [w \in Workers |->
                IF w \in Spawned /\ cur'[w] = 0 THEN Undefined ELSE Pending]
    /\ handed' = [b \in Batches |-> {w \in Spawned : cur'[w] = b}]
    /\ IF \A w \in Spawned : promise'[w].settled
       THEN /\ call' = reduceErrors(promise')
            /\ listener' = "closed"
            /\ closes' = closes + 1
       ELSE /\ listener' = "open"
            /\ UNCHANGED <<call, closes>>
    /\ UNCHANGED <<batches, maxParallel, sub, evt, ledger, announced, firstFail,
                   observed, popsAfterFail, lateAnnounce, lateSubscribe,
                   inFlightAtFail, lookupFault>>

\* await listener.open() throws: the async function rejects before any worker.
StartOpenFails ==
    /\ UNCHANGED <<lvars, uvars, bvars, kvars, mvars, rvars, gvars>>
    /\ listener = "none" /\ ~call.settled
    /\ opens' = opens + 1
    /\ call' = Rejected
    /\ UNCHANGED <<batches, maxParallel, txPool, listener, closes, pc, cur, sub,
                   evt, promise, ledger, announced, hvars>>

\* The continuation of a worker after `await this.listenTxs(...)` has resolved
\* with result `outcome` for its batch: listenTxs' finally unsubscribes the
\* watchers; errors are filtered; resolve(errors) if any; then the loop goes on
\* with batch = nextBatch(), and resolve(undefined) after the loop.
WorkerResume(w, outcome) ==
    LET b == cur[w]
        errors == IF outcome = "error" THEN <<ErrorRecord(b)>> ELSE <<>>
        p1 == IF errors # <<>> THEN resolve(promise[w], Errors(errors)) ELSE promise[w]
        nb == nextBatch(txPool)
        ff == IF outcome = "error" /\ firstFail[w] = 0 THEN b ELSE firstFail[w]
    IN  /\ sub' = [sub EXCEPT ![w] = FALSE]
        /\ evt' = [evt EXCEPT ![w] = "none"]
        /\ observed' = [observed EXCEPT ![b] = outcome]
        /\ firstFail' = [firstFail EXCEPT ![w] = ff]
        /\ txPool' = poolAfterPop(txPool)
        /\ cur' = [cur EXCEPT ![w] = nb]
        /\ IF nb # 0
           THEN /\ pc' = [pc EXCEPT ![w] = "announce"]
                /\ promise' = [promise EXCEPT ![w] = p1]
                /\ handed' = [handed EXCEPT ![nb] = @ \cup {w}]
                /\ popsAfterFail' = [popsAfterFail EXCEPT ![w] = IF ff # 0 THEN 1 ELSE @]
           ELSE /\ pc' = [pc EXCEPT ![w] = "done"]
                /\ promise' = [promise EXCEPT ![w] = resolve(p1, Undefined)]
                /\ UNCHANGED <<handed, popsAfterFail>>
        /\ inFlightAtFail' =
              IF outcome = "error"
              THEN inFlightAtFail \cup
                   {cur[v] : v \in {x \in Workers : x # w /\ pc[x] \in Busy}}
              ELSE inFlightAtFail
        /\ Complete(promise')
        /\ UNCHANGED <<batches, maxParallel, opens, ledger, announced,
                       lateAnnounce, lateSubscribe, lookupFault>>

\* announceTxWithCosignatures: the node receives the signed payload.
Announce(w) ==
    /\ UNCHANGED <<lvars, uvars, bvars, kvars, mvars, rvars, gvars>>
    /\ pc[w] = "announce"
    /\ LET b == cur[w] IN
        /\ announced' = [announced EXCEPT ![b] = @ + 1]
        /\ ledger' = [ledger EXCEPT ![b] = IF @ = "none" THEN "unconfirmed" ELSE @]
    /\ pc' = [pc EXCEPT ![w] = "announced"]
    /\ lateAnnounce' = (lateAnnounce \/ listener = "closed")
    /\ UNCHANGED <<batches, maxParallel, txPool, listener, opens, closes, cur, sub,
                   evt, promise, call, handed, firstFail, observed, popsAfterFail,
                   lateSubscribe, inFlightAtFail, lookupFault>>

\* The announce request fails (transport error): the await throws inside the
\* async promise executor, whose own promise nobody holds; neither resolve nor
\* reject of the worker promise is called.
AnnounceFails(w) ==
    /\ UNCHANGED <<lvars, uvars, bvars, kvars, mvars, rvars, gvars>>
    /\ pc[w] = "announce"
    /\ pc' = [pc EXCEPT ![w] = "thrown"]
    /\ UNCHANGED <<batches, maxParallel, txPool, listener, opens, closes, cur, sub,
                   evt, promise, call, ledger, announced, hvars>>

\* The announce response arrives; listenTxs subscribes the status and confirmed
\* watchers of the batch's hash, then issues the status lookup.
AnnounceReturn(w) ==
    /\ UNCHANGED <<lvars, uvars, bvars, kvars, mvars, rvars, gvars>>
    /\ pc[w] = "announced"
    /\ pc' = [pc EXCEPT ![w] = "status"]
    /\ sub' = [sub EXCEPT ![w] = (listener = "open")]
    /\ lateSubscribe' = (lateSubscribe \/ listener = "closed")
    /\ UNCHANGED <<batches, maxParallel, txPool, listener, opens, closes, cur, evt,
                   promise, call, ledger, announced, handed, firstFail, observed,
                   popsAfterFail, lateAnnounce, inFlightAtFail, lookupFault>>

\* statusHttp.getTransactionStatus(txHash) answers: a Failure code resolves the
\* hash with an error, anything else goes on to getConfirmedTx.
StatusReturn(w) ==
    /\ UNCHANGED <<lvars, uvars, bvars, kvars, mvars, rvars, gvars>>
    /\ pc[w] = "status"
    /\ IF ledger[cur[w]] = "failed"
       THEN WorkerResume(w, "error")
       ELSE /\ pc' = [pc EXCEPT ![w] = "confirmedLookup"]
            /\ UNCHANGED <<batches, maxParallel, txPool, listener, opens, closes, cur,
                           sub, evt, promise, call, ledger, announced, hvars>>

\* The status request fails: .catch(() => undefined), then getConfirmedTx.
StatusLookupFails(w) ==
    /\ UNCHANGED <<lvars, uvars, bvars, kvars, mvars, rvars, gvars>>
    /\ pc[w] = "status"
    /\ pc' = [pc EXCEPT ![w] = "confirmedLookup"]
    /\ lookupFault' = TRUE
    /\ UNCHANGED <<batches, maxParallel, txPool, listener, opens, closes, cur,
                   sub, evt, promise, call, ledger, announced, handed, firstFail,
                   observed, popsAfterFail, lateAnnounce, lateSubscribe,
                   inFlightAtFail>>

\* (as ConfirmedReturn, without the "already confirmed" resolve)
ConfirmedReturnIgnored(w) ==
    /\ UNCHANGED <<lvars, uvars, bvars, kvars, mvars, rvars, gvars>>
    /\ pc[w] = "confirmedLookup"
    /\ pc' = [pc EXCEPT ![w] = "wait"]
    /\ UNCHANGED <<batches, maxParallel, txPool, listener, opens, closes, cur,
                   sub, evt, promise, call, ledger, announced, hvars>>

\* getConfirmedTx(txHash) answers: the hash when the transaction is confirmed
\* (the hash resolves without error), undefined when it is not found.
ConfirmedReturn(w) ==
    /\ UNCHANGED <<lvars, uvars, bvars, kvars, mvars, rvars, gvars>>
    /\ pc[w] = "confirmedLookup"
    /\ IF ledger[cur[w]] = "confirmed"
       THEN WorkerResume(w, "ok")
       ELSE /\ pc' = [pc EXCEPT ![w] = "wait"]
            /\ UNCHANGED <<batches, maxParallel, txPool, listener, opens, closes, cur,
                           sub, evt, promise, call, ledger, announced, hvars>>

\* The confirmed request fails: .catch(() => undefined), nothing is resolved.
ConfirmedLookupFails(w) ==
    /\ UNCHANGED <<lvars, uvars, bvars, kvars, mvars, rvars, gvars>>
    /\ pc[w] = "confirmedLookup"
    /\ pc' = [pc EXCEPT ![w] = "wait"]
    /\ lookupFault' = TRUE
    /\ UNCHANGED <<batches, maxParallel, txPool, listener, opens, closes, cur,
                   sub, evt, promise, call, ledger, announced, handed, firstFail,
                   observed, popsAfterFail, lateAnnounce, lateSubscribe,
                   inFlightAtFail>>

\* A status or confirmed message reaches the worker's watcher.
DeliverEvent(w) ==
    /\ UNCHANGED <<lvars, uvars, bvars, kvars, mvars, rvars, gvars>>
    /\ pc[w] \in Awaiting /\ sub[w] /\ listener = "open"
    /\ evt[w] # "none"
    /\ WorkerResume(w, IF evt[w] = "failed" THEN "error" ELSE "ok")

\* The event stream raises an error: the watcher's error callback rejects, so
\* listenTxs rejects (after unsubscribing) and the worker's await throws.
StreamError(w) ==
    /\ UNCHANGED <<lvars, uvars, bvars, kvars, mvars, rvars, gvars>>
    /\ pc[w] \in Awaiting /\ sub[w] /\ listener = "open"
    /\ pc' = [pc EXCEPT ![w] = "thrown"]
    /\ sub' = [sub EXCEPT ![w] = FALSE]
    /\ evt' = [evt EXCEPT ![w] = "none"]
    /\ UNCHANGED <<batches, maxParallel, txPool, listener, opens, closes, cur,
                   promise, call, ledger, announced, hvars>>

\* The network settles an announced transaction and tells the subscribers.
Notify(b, what) ==
    [w \in Workers |->
        IF sub[w] /\ cur[w] = b /\ listener = "open" /\ pc[w] \in Awaiting
        THEN what ELSE evt[w]]

LedgerConfirm(b) ==
    /\ UNCHANGED <<lvars, uvars, bvars, kvars, mvars, rvars, gvars>>
    /\ ledger[b] = "unconfirmed"
    /\ ledger' = [ledger EXCEPT ![b] = "confirmed"]
    /\ evt' = Notify(b, "confirmed")
    /\ UNCHANGED <<batches, maxParallel, txPool, listener, opens, closes, pc, cur,
                   sub, promise, call, announced, hvars>>

LedgerFail(b) ==
    /\ UNCHANGED <<lvars, uvars, bvars, kvars, mvars, rvars, gvars>>
    /\ ledger[b] = "unconfirmed"
    /\ ledger' = [ledger EXCEPT ![b] = "failed"]
    /\ evt' = Notify(b, "failed")
    /\ UNCHANGED <<batches, maxParallel, txPool, listener, opens, closes, pc, cur,
                   sub, promise, call, announced, hvars>>

\* ------------------------------------------------ waitTxsFor / listenTxs
Hashes == {"hashA", "hashB"}
Channels == {"status", "confirmed", "partial"}
Requested == 1..Len(txHashes)
Positions == 1..MaxHashes

\* the promise of one requested hash: pending, resolved with {txHash, error}
\* (error: a failure message or undefined), or rejected
NoResult == [settled |-> FALSE, txHash |-> 0, error |-> FALSE, rejected |-> FALSE]
ResultThrows(h, e) ==
    [settled |-> TRUE, txHash |-> IF e THEN 0 ELSE h, error |-> FALSE, rejected |-> e]
Result(h, e) == [settled |-> TRUE, txHash |-> h, error |-> e, rejected |-> FALSE]
Thrown == [settled |-> TRUE, txHash |-> 0, error |-> FALSE, rejected |-> TRUE]

\* the returned promise
NotCalled == [state |-> "idle", results |-> <<>>]
Waiting == [state |-> "pending", results |-> <<>>]
Returned(rs) == [state |-> "resolved", results |-> rs]
Failed == [state |-> "rejected", results |-> <<>>]

\* ["confirmed", "all"].includes(group) and ["partial", "all"].includes(group)
watchesConfirmed(g) == g \in {"confirmed", "all"}
watchesPartial(g) == g \in {"partial", "all"}
\* the watchers listenTxs subscribes for a hash
watchedChannels(g) ==
    {"status"} \cup (IF watchesConfirmed(g) THEN {"confirmed"} ELSE {})
               \cup (IF watchesPartial(g) THEN {"partial"} ELSE {})

\* the state of the wait while no call is made
IdleWait ==
    /\ txHashes = <<>>
    /\ group = "confirmed"
    /\ stream = "none"
    /\ streamOpens = 0
    /\ streamCloses = 0
    /\ subscriptions = [i \in Positions |-> [c \in Channels |-> "none"]]
    /\ unsubscribed = [i \in Positions |-> [c \in Channels |-> 0]]
    /\ lookup = [i \in Positions |-> "none"]
    /\ promises = [i \in Positions |-> NoResult]
    /\ waitCall = NotCalled
    /\ status = [h \in Hashes |-> "unconfirmed"]
    /\ messages = {}
    /\ firstSeen = [i \in Positions |-> "none"]
    /\ lateSeen = [i \in Positions |-> FALSE]
    /\ waitFault = FALSE
    /\ watchersAtClose = 0


\* ------------------------------------------------------ NecromancyService
NoUndeadTx ==
    [publicKey |-> "none", aggregateTx |-> [ops |-> <<>>, deadline |-> 0, maxFee |-> 0],
     signatures |-> <<>>]

NoBuild ==
    [called |-> FALSE, at |-> 0, deadlineHours |-> 0, shift |-> 0, innerTxs |-> <<>>,
     nonce |-> 0, signed |-> 0]
NoCosignArg == [before |-> NoUndeadTx, after |-> NoUndeadTx]
NoJsonValue ==
    [version |-> "none", publicKey |-> "none", aggregateTxPayload |-> <<>>,
     signatures |-> <<>>]
NoJson == [dto |-> NoJsonValue, source |-> NoUndeadTx]
NoRestored == [value |-> NoUndeadTx, source |-> NoUndeadTx]

\* the state of the undead protocol while nothing is built
IdleUndead ==
    /\ clock = 0
    /\ undeadTx = NoUndeadTx
    /\ casted = {}
    /\ mempool = {}
    /\ chainLocks = {}
    /\ chainConfirmed = {}
    /\ chainFailed = {}
    /\ built = NoBuild
    /\ thrown = "none"
    /\ cosignArg = NoCosignArg
    /\ json = NoJson
    /\ restored = NoRestored

\* no batch builder has been called
NoBatcher ==
    [kind |-> "none", txs |-> <<>>, batchSize |-> 0, txPool |-> <<>>,
     batches |-> <<>>, state |-> "idle", error |-> "none"]
IdleBatcher == batcher = NoBatcher

\* createSignedTxWithCosignatures has not been called
NoSignedTx ==
    [payload |-> <<>>, hash |-> "none", signerPublicKey |-> "none", type |-> "none",
     networkType |-> "none"]
IdleMerge ==
    /\ signedTx = NoSignedTx
    /\ cosignatureSignedTxs = <<>>
    /\ merged = NoSignedTx
    /\ moreCosignatureSignedTxs = <<>>
    /\ remerged = NoSignedTx

\* no second undead transaction, getNetwork not called
IdleRival == rival = NoUndeadTx /\ rivalKey = 0
Callers == 1..MaxCallers
\* the context a fetch makes is a new object (fetch: which fetch made it) that
\* holds what the node answered (transactionFees stands for the answers)
NoNetwork == [fetch |-> 0, transactionFees |-> "none"]
IdleNetwork ==
    /\ network = NoNetwork
    /\ netCall = [c \in Callers |-> [state |-> "idle", value |-> NoNetwork]]
    /\ fetches = 0
    /\ fetchFailures = 0
    /\ handedOut = {}
Elsewhere == IdleRival /\ IdleNetwork

Next ==
    \/ Start
    \/ StartOpenFails
    \/ \E w \in Workers : Announce(w)
    \/ \E w \in Workers : AnnounceFails(w)
    \/ \E w \in Workers : AnnounceReturn(w)
    \/ \E w \in Workers : StatusReturn(w)
    \/ \E w \in Workers : ConfirmedReturn(w)
    \/ \E w \in Workers : StatusLookupFails(w)
    \/ \E w \in Workers : ConfirmedLookupFails(w)
    \/ \E w \in Workers : DeliverEvent(w)
    \/ \E w \in Workers : StreamError(w)
    \/ \E b \in Batches : LedgerConfirm(b)
    \/ \E b \in Batches : LedgerFail(b)

Init == InitDispatcher /\ IdleWait /\ IdleUndead /\ IdleBatcher /\ IdleMerge /\ Elsewhere

Spec == Init /\ [][Next]_vars

\* The scheduling the event loop and the network give: a started call runs, a
\* request in flight is answered, a message on an open stream is delivered and
\* the network settles (here: confirms) what was announced.
Fairness ==
    /\ WF_vars(Start)
    /\ \A w \in Workers :
        /\ WF_vars(Announce(w))
        /\ WF_vars(AnnounceReturn(w))
        /\ WF_vars(StatusReturn(w))
        /\ WF_vars(ConfirmedReturn(w))
        /\ WF_vars(DeliverEvent(w))
    /\ \A b \in Batches : WF_vars(LedgerConfirm(b))

\* The steps of a call that no transport error and no failed transaction hits.
NextConfirmed ==
    \/ Start
    \/ \E w \in Workers : Announce(w)
    \/ \E w \in Workers : AnnounceReturn(w)
    \/ \E w \in Workers : StatusReturn(w)
    \/ \E w \in Workers : ConfirmedReturn(w)
    \/ \E w \in Workers : DeliverEvent(w)
    \/ \E b \in Batches : LedgerConfirm(b)

SpecFair == Init /\ [][NextConfirmed]_vars /\ Fairness

\* --------------------------------------------- executeBatches: properties
Inputs == 1..Len(batches)
\* a transport error has hit the call
Faulted == call.rejected \/ lookupFault \/ \E w \in Workers : pc[w] = "thrown"
SomeFailed == \E b \in Batches : ledger[b] = "failed"
InFlight == {b \in Batches : announced[b] > 0 /\ observed[b] = "none"}
InResult(b) == \E i \in 1..Len(call.errors) : call.errors[i] = ErrorRecord(b)

RECURSIVE firstFailRecords(_)
firstFailRecords(w) ==
    IF w > NumWorkers THEN <<>>
    ELSE (IF firstFail[w] # 0 THEN <<ErrorRecord(firstFail[w])>> ELSE <<>>)
         \o firstFailRecords(w + 1)

\* C2: once the wait of a batch popped by a worker has reported an error, that
\* worker pops (and so announces) no further batch; with maxParallel = 1 no
\* batch queued after a failed batch k is ever announced.
C2_WorkerStopsAfterError ==
    /\ \A w \in Workers : popsAfterFail[w] = 0
    /\ maxParallel = 1 =>
         \A k \in Inputs : observed[k] = "error" =>
             \A j \in Inputs : j > k => announced[j] = 0

\* C3: the call returns undefined exactly when no worker saw a failed batch
\* (every worker then has left its loop); otherwise it returns, in worker
\* order, the error record each failing worker resolved with.
C3_ResultIsWorkerErrors ==
    (call.settled /\ ~call.rejected) =>
        /\ call.undef <=> (\A w \in Spawned : firstFail[w] = 0)
        /\ call.undef => (\A w \in Spawned : pc[w] = "done")
        /\ ~call.undef => call.errors = firstFailRecords(1)
        /\ (maxParallel = 1 /\ Cardinality({b \in Inputs : ledger[b] = "failed"}) = 1
              /\ ~call.undef)
           => \E k \in Inputs : ledger[k] = "failed" /\ call.errors = <<ErrorRecord(k)>>

C3_Witness ==
    /\ maxParallel = 2
    /\ call.settled
    /\ Len(call.errors) = 2

\* C4: every batch is handed to at most one worker and announced at most once.
C4_PopExclusive ==
    \A b \in Batches : Cardinality(handed[b]) <= 1 /\ announced[b] <= 1

C4_Witness ==
    /\ maxParallel = 2
    /\ Len(batches) = MaxBatches
    /\ \A b \in Inputs : announced[b] = 1 /\ Cardinality(handed[b]) = 1
    /\ \E b \in Inputs : handed[b] = {2}

\* C5: one connection is opened, it is closed once, and only after every
\* worker has finished: no announce and no subscription follows the close.
C5_ClosedAfterAllWorkers ==
    /\ opens <= 1
    /\ closes <= 1
    /\ listener = "closed" => \A w \in Spawned : pc[w] \notin Busy
    /\ ~lateAnnounce
    /\ ~lateSubscribe

\* C6: when a transport error has hit a worker (a failed announce, an error on
\* the event stream), the call ends rejected and the connection closed: the
\* call cannot come to rest unsettled.
C6_TransportErrorRejects ==
    ((\E w \in Workers : pc[w] = "thrown") /\ ~ENABLED Next) =>
        (call.rejected /\ listener = "closed")

\* C7: a failure seen by one worker cancels nothing of the others: a batch
\* another worker held at that moment completes, and a failure of it is in the
\* result of the call.
C7_NoCrossWorkerCancellation ==
    (~Faulted /\ ~ENABLED Next) =>
        \A b \in inFlightAtFail :
            /\ observed[b] # "none"
            /\ observed[b] = "error" => InResult(b)

\* C8: with maxParallel >= 1, no transport error and no failed transaction the
\* call terminates, returning undefined with every input batch announced once.
C8_ConfirmedRunReturnsUndefined ==
    <>( \/ maxParallel < 1
        \/ Faulted
        \/ SomeFailed
        \/ /\ call.settled /\ call.undef
           /\ \A b \in Inputs : announced[b] = 1 /\ observed[b] = "ok" )

C8_Witness ==
    /\ maxParallel >= 1
    /\ Len(batches) = MaxBatches
    /\ call.settled /\ call.undef
    /\ ~Faulted /\ ~SomeFailed
    /\ \A b \in Inputs : announced[b] = 1

\* C9: at most maxParallel batches are announced with their wait unresolved.
C9_InFlightBounded ==
    IF maxParallel >= 0
    THEN Cardinality(InFlight) <= maxParallel
    ELSE InFlight = {}

C9_Witness ==
    /\ maxParallel = MaxWorkers
    /\ Cardinality(InFlight) = MaxWorkers
    /\ txPool # <<>>

\* ------------------------------------- waitTxsFor / listenTxs: actions
\* the state of the dispatcher while no executeBatches call is made
IdleDispatcher ==
    /\ batches = <<>>
    /\ maxParallel = 0
    /\ txPool = <<>>
    /\ listener = "none"
    /\ opens = 0
    /\ closes = 0
    /\ pc = [w \in Workers |-> "idle"]
    /\ cur = [w \in Workers |-> 0]
    /\ sub = [w \in Workers |-> FALSE]
    /\ evt = [w \in Workers |-> "none"]
    /\ promise = [w \in Workers |-> Pending]
    /\ call = Pending
    /\ ledger = [b \in Batches |-> "none"]
    /\ announced = [b \in Batches |-> 0]
    /\ handed = [b \in Batches |-> {}]
    /\ firstFail = [w \in Workers |-> 0]
    /\ observed = [b \in Batches |-> "none"]
    /\ popsAfterFail = [w \in Workers |-> 0]
    /\ lateAnnounce = FALSE
    /\ lateSubscribe = FALSE
    /\ inFlightAtFail = {}
    /\ lookupFault = FALSE

\* all request lists of at most MaxHashes hashes (a hash may be asked twice)
RequestLists == UNION {[1..n -> Hashes] : n \in 0..MaxHashes}

InitWait ==
    /\ txHashes \in RequestLists
    /\ group \in {"confirmed", "partial", "all"}
    /\ stream = "none"
    /\ streamOpens = 0
    /\ streamCloses = 0
    /\ subscriptions = [i \in Positions |-> [c \in Channels |-> "none"]]
    /\ unsubscribed = [i \in Positions |-> [c \in Channels |-> 0]]
    /\ lookup = [i \in Positions |-> "none"]
    /\ promises = [i \in Positions |-> NoResult]
    /\ waitCall = NotCalled
    /\ status = [h \in Hashes |-> "unconfirmed"]
    /\ messages = {}
    /\ firstSeen = [i \in Positions |-> "none"]
    /\ lateSeen = [i \in Positions |-> FALSE]
    /\ waitFault = FALSE
    /\ watchersAtClose = 0

\* the number of watchers subscribed in `subs`
subscribedIn(subs) ==
    Cardinality({ic \in Positions \X Channels : subs[ic[1]][ic[2]] = "subscribed"})

\* Promise.all(promises).finally(unsubscribe all), then waitTxsFor's
\* .finally(() => listener.close()): what runs once the call is over.
TeardownKeepsWatchers ==
    /\ UNCHANGED <<subscriptions, unsubscribed>>
    /\ stream' = "closed"
    /\ streamCloses' = streamCloses + 1
    /\ watchersAtClose' = subscribedIn(subscriptions')
    /\ messages' = {}

TeardownClosesFirst ==
    /\ stream' = "closed"
    /\ streamCloses' = streamCloses + 1
    /\ watchersAtClose' = subscribedIn(subscriptions)
    /\ subscriptions' = [i \in Positions |-> [c \in Channels |->
            IF subscriptions[i][c] = "subscribed" THEN "unsubscribed"
            ELSE subscriptions[i][c]]]
    /\ unsubscribed' = [i \in Positions |-> [c \in Channels |->
            IF subscriptions[i][c] # "none" THEN unsubscribed[i][c] + 1
            ELSE unsubscribed[i][c]]]
    /\ messages' = {}

Teardown ==
    /\ subscriptions' = [i \in Positions |-> [c \in Channels |->
            IF subscriptions[i][c] = "subscribed" THEN "unsubscribed"
            ELSE subscriptions[i][c]]]
    /\ unsubscribed' = [i \in Positions |-> [c \in Channels |->
            IF subscriptions[i][c] # "none" THEN unsubscribed[i][c] + 1
            ELSE unsubscribed[i][c]]]
    /\ stream' = "closed"
    /\ streamCloses' = streamCloses + 1
    /\ watchersAtClose' = subscribedIn(subscriptions')
    /\ messages' = {}

\* Promise.all over the promises `ps`, in request order
resultsOf(ps) == [i \in Requested |-> [txHash |-> ps[i].txHash, error |-> ps[i].error]]

\* the terminal condition `e` (TRUE: a failure) is seen for the requested
\* hashes at positions S: resolve({txHash, error}) on each of their promises,
\* and the call returns in the same task once every promise is resolved.
Settle(S, e, msgs) ==
    /\ promises' = [i \in Positions |->
            IF i \in S THEN resolve(promises[i], Result(txHashes[i], e))
            ELSE promises[i]]
    /\ firstSeen' = [i \in Positions |->
            IF i \in S /\ firstSeen[i] = "none"
            THEN (IF e THEN "error" ELSE "ok") ELSE firstSeen[i]]
    /\ lateSeen' = [i \in Positions |->
            IF i \in S /\ firstSeen[i] # "none" THEN TRUE ELSE lateSeen[i]]
    /\ IF waitCall.state = "pending" /\ \A i \in Requested : promises'[i].settled
       THEN /\ waitCall' = Returned(resultsOf(promises'))
            /\ Teardown
       ELSE /\ messages' = msgs
            /\ UNCHANGED <<waitCall, subscriptions, unsubscribed, stream, streamCloses,
                           watchersAtClose>>

\* waitTxsFor: listener.open() succeeds; listenTxs builds the promises: each
\* executor subscribes its watchers and issues the status lookup, all in the
\* same task. Without hashes the call returns [] at once.
WaitOpen ==
    /\ UNCHANGED <<dvars, hvars, uvars, bvars, kvars, mvars, rvars, gvars>>
    /\ UNCHANGED waitFault
    /\ waitCall.state = "idle"
    /\ streamOpens' = streamOpens + 1
    /\ lookup' = [i \in Positions |-> IF i \in Requested THEN "status" ELSE "none"]
    /\ IF Requested = {}
       THEN /\ waitCall' = Returned(<<>>)
            /\ stream' = "closed"
            /\ streamCloses' = streamCloses + 1
            /\ watchersAtClose' = subscribedIn(subscriptions)
            /\ UNCHANGED subscriptions
       ELSE /\ waitCall' = Waiting
            /\ stream' = "open"
            /\ subscriptions' = [i \in Positions |-> [c \in Channels |->
                    IF i \in Requested /\ c \in watchedChannels(group)
                    THEN "subscribed" ELSE "none"]]
            /\ UNCHANGED <<streamCloses, watchersAtClose>>
    /\ UNCHANGED <<txHashes, group, unsubscribed, promises, status, messages,
                   firstSeen, lateSeen>>

\* waitTxsFor: await listener.open() throws; no listenTxs, no close.
WaitOpenFails ==
    /\ UNCHANGED <<dvars, hvars, uvars, bvars, kvars, mvars, rvars, gvars>>
    /\ waitFault' = TRUE
    /\ UNCHANGED watchersAtClose
    /\ waitCall.state = "idle"
    /\ streamOpens' = streamOpens + 1
    /\ waitCall' = Failed
    /\ UNCHANGED <<txHashes, group, stream, streamCloses, subscriptions, unsubscribed,
                   lookup, promises, status, messages, firstSeen, lateSeen>>

afterStatusSkipsLookup(g) == IF watchesPartial(g) THEN "partial" ELSE "over"
afterStatus(g) == IF watchesConfirmed(g) THEN "confirmed" ELSE "partial"
afterConfirmed(g) == IF watchesPartial(g) THEN "partial" ELSE "over"

\* getTransactionStatus answers: a Failure code resolves the hash with error
LookupStatus(i) ==
    /\ UNCHANGED <<dvars, hvars, uvars, bvars, kvars, mvars, rvars, gvars>>
    /\ UNCHANGED waitFault
    /\ i \in Requested /\ lookup[i] = "status"
    /\ IF status[txHashes[i]] = "failed"
       THEN /\ lookup' = [lookup EXCEPT ![i] = "over"]
            /\ Settle({i}, TRUE, messages)
       ELSE /\ lookup' = [lookup EXCEPT ![i] = afterStatus(group)]
            /\ UNCHANGED <<subscriptions, unsubscribed, promises, waitCall, stream,
                           streamCloses, messages, firstSeen, lateSeen,
                           watchersAtClose>>
    /\ UNCHANGED <<txHashes, group, streamOpens, status>>

\* the status request fails: .catch(() => undefined)
LookupStatusFails(i) ==
    /\ UNCHANGED <<dvars, hvars, uvars, bvars, kvars, mvars, rvars, gvars>>
    /\ waitFault' = TRUE
    /\ UNCHANGED watchersAtClose
    /\ i \in Requested /\ lookup[i] = "status"
    /\ lookup' = [lookup EXCEPT ![i] = afterStatus(group)]
    /\ UNCHANGED <<txHashes, group, stream, streamOpens, streamCloses, subscriptions,
                   unsubscribed, promises, waitCall, status, messages, firstSeen,
                   lateSeen>>

\* getConfirmedTx answers: found resolves the hash without error
LookupConfirmed(i) ==
    /\ UNCHANGED <<dvars, hvars, uvars, bvars, kvars, mvars, rvars, gvars>>
    /\ UNCHANGED waitFault
    /\ i \in Requested /\ lookup[i] = "confirmed"
    /\ IF status[txHashes[i]] = "confirmed"
       THEN /\ lookup' = [lookup EXCEPT ![i] = "over"]
            /\ Settle({i}, FALSE, messages)
       ELSE /\ lookup' = [lookup EXCEPT ![i] = afterConfirmed(group)]
            /\ UNCHANGED <<subscriptions, unsubscribed, promises, waitCall, stream,
                           streamCloses, messages, firstSeen, lateSeen,
                           watchersAtClose>>
    /\ UNCHANGED <<txHashes, group, streamOpens, status>>

\* the confirmed request fails: .catch(() => undefined)
LookupConfirmedFails(i) ==
    /\ UNCHANGED <<dvars, hvars, uvars, bvars, kvars, mvars, rvars, gvars>>
    /\ waitFault' = TRUE
    /\ UNCHANGED watchersAtClose
    /\ i \in Requested /\ lookup[i] = "confirmed"
    /\ lookup' = [lookup EXCEPT ![i] = afterConfirmed(group)]
    /\ UNCHANGED <<txHashes, group, stream, streamOpens, streamCloses, subscriptions,
                   unsubscribed, promises, waitCall, status, messages, firstSeen,
                   lateSeen>>

\* getPartialTx answers: found resolves the hash without error
LookupPartial(i) ==
    /\ UNCHANGED <<dvars, hvars, uvars, bvars, kvars, mvars, rvars, gvars>>
    /\ UNCHANGED waitFault
    /\ i \in Requested /\ lookup[i] = "partial"
    /\ lookup' = [lookup EXCEPT ![i] = "over"]
    /\ IF status[txHashes[i]] = "partial"
       THEN Settle({i}, FALSE, messages)
       ELSE UNCHANGED <<subscriptions, unsubscribed, promises, waitCall, stream,
                        streamCloses, messages, firstSeen, lateSeen, watchersAtClose>>
    /\ UNCHANGED <<txHashes, group, streamOpens, status>>

\* the partial request fails: .catch(() => undefined)
LookupPartialFails(i) ==
    /\ UNCHANGED <<dvars, hvars, uvars, bvars, kvars, mvars, rvars, gvars>>
    /\ waitFault' = TRUE
    /\ UNCHANGED watchersAtClose
    /\ i \in Requested /\ lookup[i] = "partial"
    /\ lookup' = [lookup EXCEPT ![i] = "over"]
    /\ UNCHANGED <<txHashes, group, stream, streamOpens, streamCloses, subscriptions,
                   unsubscribed, promises, waitCall, status, messages, firstSeen,
                   lateSeen>>

\* A message of the stream arrives: the next callback of every watcher
\* subscribed for its channel and hash runs (status: resolve with the error,
\* confirmed / partial: resolve without).
Deliver(m) ==
    /\ UNCHANGED <<dvars, hvars, uvars, bvars, kvars, mvars, rvars, gvars>>
    /\ UNCHANGED waitFault
    /\ m \in messages /\ stream = "open"
    /\ Settle({i \in Requested : /\ txHashes[i] = m.hash
                                 /\ subscriptions[i][m.channel] = "subscribed"},
              m.channel = "status", messages \ {m})
    /\ UNCHANGED <<txHashes, group, streamOpens, lookup, status>>

\* A watcher's stream raises an error: its error callback calls reject(e); a
\* pending promise is rejected, so Promise.all rejects and the call is over.
WatcherError(i, c) ==
    /\ UNCHANGED <<dvars, hvars, uvars, bvars, kvars, mvars, rvars, gvars>>
    /\ waitFault' = TRUE
    /\ i \in Requested /\ subscriptions[i][c] = "subscribed" /\ stream = "open"
    /\ promises' = [promises EXCEPT ![i] = resolve(@, Thrown)]
    /\ IF waitCall.state = "pending" /\ promises'[i].rejected
       THEN /\ waitCall' = Failed
            /\ Teardown
       ELSE UNCHANGED <<waitCall, subscriptions, unsubscribed, stream, streamCloses,
                        messages, watchersAtClose>>
    /\ UNCHANGED <<txHashes, group, streamOpens, lookup, status, firstSeen, lateSeen>>

\* the network tells the client about hash h on channel c when a watcher of
\* the call is subscribed for it
emit(h, c) ==
    IF stream = "open" /\ \E i \in Requested :
            txHashes[i] = h /\ subscriptions[i][c] = "subscribed"
    THEN messages \cup {[hash |-> h, channel |-> c]}
    ELSE messages

\* an aggregate bonded transaction enters the partial pool
NetPartial(h) ==
    /\ UNCHANGED <<dvars, hvars, uvars, bvars, kvars, mvars, rvars, gvars>>
    /\ UNCHANGED waitFault
    /\ UNCHANGED watchersAtClose
    /\ status[h] = "unconfirmed"
    /\ status' = [status EXCEPT ![h] = "partial"]
    /\ messages' = emit(h, "partial")
    /\ UNCHANGED <<txHashes, group, stream, streamOpens, streamCloses, subscriptions,
                   unsubscribed, lookup, promises, waitCall, firstSeen, lateSeen>>

\* the transaction is included in a block
NetConfirm(h) ==
    /\ UNCHANGED <<dvars, hvars, uvars, bvars, kvars, mvars, rvars, gvars>>
    /\ UNCHANGED waitFault
    /\ UNCHANGED watchersAtClose
    /\ status[h] \in {"unconfirmed", "partial"}
    /\ status' = [status EXCEPT ![h] = "confirmed"]
    /\ messages' = emit(h, "confirmed")
    /\ UNCHANGED <<txHashes, group, stream, streamOpens, streamCloses, subscriptions,
                   unsubscribed, lookup, promises, waitCall, firstSeen, lateSeen>>

\* the transaction is rejected (also out of the partial pool, e.g. expired)
NetFail(h) ==
    /\ UNCHANGED <<dvars, hvars, uvars, bvars, kvars, mvars, rvars, gvars>>
    /\ UNCHANGED waitFault
    /\ UNCHANGED watchersAtClose
    /\ status[h] \in {"unconfirmed", "partial"}
    /\ status' = [status EXCEPT ![h] = "failed"]
    /\ messages' = emit(h, "status")
    /\ UNCHANGED <<txHashes, group, stream, streamOpens, streamCloses, subscriptions,
                   unsubscribed, lookup, promises, waitCall, firstSeen, lateSeen>>

NextWait ==
    \/ WaitOpen
    \/ WaitOpenFails
    \/ \E i \in Positions : LookupStatus(i)
    \/ \E i \in Positions : LookupStatusFails(i)
    \/ \E i \in Positions : LookupConfirmed(i)
    \/ \E i \in Positions : LookupConfirmedFails(i)
    \/ \E i \in Positions : LookupPartial(i)
    \/ \E i \in Positions : LookupPartialFails(i)
    \/ \E h \in Hashes, c \in Channels : Deliver([hash |-> h, channel |-> c])
    \/ \E i \in Positions, c \in Channels : WatcherError(i, c)
    \/ \E h \in Hashes : NetPartial(h)
    \/ \E h \in Hashes : NetConfirm(h)
    \/ \E h \in Hashes : NetFail(h)

InitW == IdleDispatcher /\ InitWait /\ IdleUndead /\ IdleBatcher /\ IdleMerge /\ Elsewhere

SpecWait == InitW /\ [][NextWait]_vars

\* ----------------------------------- waitTxsFor / listenTxs: properties
\* C10: a wait returns one result per requested hash, in request order, each
\* the first terminal condition seen for that hash; no later event or lookup
\* changes a hash's result or the returned list.
C10_FirstSettlerWins ==
    /\ [](waitCall.state = "resolved" =>
            /\ Len(waitCall.results) = Len(txHashes)
            /\ \A i \in Requested :
                /\ waitCall.results[i].txHash = txHashes[i]
                /\ waitCall.results[i].error = (firstSeen[i] = "error"))
    /\ [][/\ \A i \in Positions : promises[i].settled => promises'[i] = promises[i]
          /\ waitCall.state = "resolved" => waitCall' = waitCall]_vars

C10_Witness ==
    /\ waitCall.state = "resolved"
    /\ Len(txHashes) = 2
    /\ txHashes[1] # txHashes[2]
    /\ waitCall.results[1].error /\ ~waitCall.results[2].error
    /\ firstSeen[2] = "ok" /\ lateSeen[2]

\* ------------------------------------------- NecromancyService: actions
Signer == "signer"
Cosigners == {"cosigner1"}
\* the caller's operations (opaque) and the lock operation createTx adds
Transfer == [kind |-> "transfer", key |-> 0]
\* createMetadataTx(MetadataType.Account, signer, signer, undefined, nonce, "1")
lockMetadata(signerAccount, nonce) ==
    [kind |-> "metadata", source |-> signerAccount, target |-> signerAccount, key |-> nonce]

\* the longest validity the network accepts: the README asks that
\* deadlineUnitHours + deadlineMarginHours stay within it
maxLifetimeHours == deadlineUnitHours + deadlineMarginHours

\* Deadlines and the clock count ticks of half an hour (the code counts
\* milliseconds: hours * 60 * 60 * 1000).
TicksPerHour == 2
\* const marginMsecs = this.config.deadlineMarginHours * 60 * 60 * 1000
marginMsecs == deadlineMarginHours * TicksPerHour
\* time shifts (hours) the callers of createTx / pickAndCastTx pass
Shifts == {0 - 2 * deadlineUnitHours * TicksPerHour, 0}

Min(a, b) == IF a < b THEN a ELSE b
\* Math.ceil(a / b) for positive integers
Ceil(a, b) == (a + b - 1) \div b

\* Deadline.create(epochAdjustment + timeShiftSecs, hours).adjustedValue
deadlineCreate(shift, hours) == clock + hours * TicksPerHour - shift

\* Transaction.signRawTransaction / createTransactionHash / signTransactionHash,
\* as injective functions of what they are computed from
signRaw(account, body) == [by |-> account, over |-> body]
createTransactionHash(signature, signer, body) ==
    [signature |-> signature, signer |-> signer, body |-> body]
\* UInt64: [ lower, higher ]; toDTO() gives the pair, new UInt64(dto) reads it
UInt64(dto) == [lower |-> dto[1], higher |-> dto[2]]
toDTO(uint64) == <<uint64.lower, uint64.higher>>
\* CosignatureTransaction.signTransactionHash(cosigner, hash): a
\* CosignatureSignedTransaction (its version is UInt64 0)
signTransactionHash(cosigner, hash) ==
    [parentHash |-> hash, signature |-> signRaw(cosigner, hash),
     signerPublicKey |-> cosigner, version |-> UInt64(<<0, 0>>)]
cosign(accounts, hash) == [k \in 1..Len(accounts) |-> signTransactionHash(accounts[k], hash)]

\* AggregateTransaction.createComplete(deadline, [...innerTxs, lockMetadata], ..)
lifeOperationsNoLock(innerTxs, lock) == innerTxs
lifeOperations(innerTxs, lock) == Append(innerTxs, lock)
\* .setMaxFeeForAggregate(feeMultiplier, requiredCosignatures): the fee of
\* the transaction's size (its operations and the cosignatures it leaves
\* room for), in units of the fee multiplier
setMaxFeeForAggregate(ops, requiredCosignatures) == Len(ops) + requiredCosignatures
aggregate(ops, deadline, maxFee) == [ops |-> ops, deadline |-> deadline, maxFee |-> maxFee]
\* aggregateTx.serialize() and AggregateTransaction.createFromPayload(payload):
\* the payload lists the fields in their wire order
serialize(aggregateTx) == <<aggregateTx.maxFee, aggregateTx.deadline, aggregateTx.ops>>
createFromPayload(payload) == aggregate(payload[3], payload[2], payload[1])

\* createTx: the life pushed by iteration i (i = 1 is the code's i = 0)
lifeDeadlineUncapped(deadlineHours, shift, i) ==
    deadlineCreate(shift, deadlineUnitHours * i)
lifeDeadlineSame(deadlineHours, shift, i) ==
    deadlineCreate(shift, deadlineHours)
lifeDeadline(deadlineHours, shift, i) ==
    deadlineCreate(shift, Min(deadlineUnitHours * i, deadlineHours))
lifeAggregate(deadlineHours, innerTxs, signerAccount, nonce, shift, i) ==
    LET ops == lifeOperations(innerTxs, lockMetadata(signerAccount, nonce))
    IN  aggregate(ops, lifeDeadline(deadlineHours, shift, i), setMaxFeeForAggregate(ops, 1))
lifeOf(deadlineHours, innerTxs, signerAccount, nonce, cosigners, shift, i) ==
    LET body == lifeAggregate(deadlineHours, innerTxs, signerAccount, nonce, shift, i)
        signature == signRaw(signerAccount, body)
        hash == createTransactionHash(signature, signerAccount, body)
    IN  [deadline |-> body.deadline, hash |-> hash, signature |-> signature,
         cosignatures |-> cosign(cosigners, hash)]

InitUndead ==
    /\ clock = 0
    /\ undeadTx = NoUndeadTx
    /\ casted = {}
    /\ mempool = {}
    /\ chainLocks = {}
    /\ chainConfirmed = {}
    /\ chainFailed = {}
    /\ built = NoBuild
    /\ thrown = "none"
    /\ cosignArg = NoCosignArg
    /\ json = NoJson
    /\ restored = NoRestored

CosignerLists == {<<>>} \cup {<<c>> : c \in Cosigners}

\* what createTx builds when it gets to its loop: signed counts the signTx calls
undeadOf(deadlineHours, innerTxs, signerAccount, nonce, cosigners, shift) ==
    LET numExtends == Ceil(deadlineHours, deadlineUnitHours)
        signatures == [i \in 1..numExtends |->
                            lifeOf(deadlineHours, innerTxs, signerAccount, nonce, cosigners, shift, i)]
        firstAggregateTx == lifeAggregate(deadlineHours, innerTxs, signerAccount, nonce, shift, 1)
    IN  [error |-> "none", signed |-> numExtends,
         value |-> [publicKey |-> signerAccount,
                    aggregateTx |-> createFromPayload(serialize(firstAggregateTx)),
                    signatures |-> signatures]]

\* the checks of createTx, made after the lives were signed
createTxValidatesLast(deadlineHours, innerTxs, signerAccount, nonce, cosigners, shift) ==
    LET made == undeadOf(deadlineHours, innerTxs, signerAccount, nonce, cosigners, shift)
    IN  IF Len(innerTxs) < 1
        THEN [made EXCEPT !.error = "Empty inner transactions.", !.value = NoUndeadTx]
        ELSE IF Len(innerTxs) > maxInnerTxs
        THEN [made EXCEPT !.error = "Number of inner transactions must be 99 or less.",
                          !.value = NoUndeadTx]
        ELSE made

\* createTx(deadlineHours, innerTxs, signerAccount, cosignerAccounts, ..,
\*          nonce, timeShiftSecs): the error it throws or the value it returns
createTx(deadlineHours, innerTxs, signerAccount, nonce, cosigners, shift) ==
    IF Len(innerTxs) < 1
    THEN [error |-> "Empty inner transactions.", signed |-> 0, value |-> NoUndeadTx]
    ELSE IF Len(innerTxs) > maxInnerTxs
    THEN [error |-> "Number of inner transactions must be 99 or less.", signed |-> 0,
          value |-> NoUndeadTx]
    ELSE undeadOf(deadlineHours, innerTxs, signerAccount, nonce, cosigners, shift)

\* a call of createTx; the caller keeps the value when there is one
CreateTx(deadlineHours, innerTxs, cosigners, shift) ==
    /\ UNCHANGED <<dvars, hvars, lvars, kvars, mvars, rvars, gvars>>
    /\ undeadTx = NoUndeadTx
    /\ LET nonce == 1
           made == createTx(deadlineHours, innerTxs, Signer, nonce, cosigners, shift)
       IN  /\ undeadTx' = IF made.error = "none" THEN made.value ELSE undeadTx
           /\ thrown' = made.error
           /\ built' = [called |-> TRUE, at |-> clock, deadlineHours |-> deadlineHours,
                        shift |-> shift, innerTxs |-> innerTxs, nonce |-> nonce,
                        signed |-> made.signed]
    /\ UNCHANGED <<clock, casted, mempool, chainLocks, chainConfirmed, chainFailed>>
    /\ UNCHANGED <<cosignArg, json, restored>>

\* cosignTx pushing the new cosignatures onto the lives it was given
cosignTxInPlace(utx, cosigners) ==
    LET extended == [utx EXCEPT !.signatures =
            [i \in 1..Len(utx.signatures) |->
                [utx.signatures[i] EXCEPT !.cosignatures =
                    @ \o cosign(cosigners, utx.signatures[i].hash)]]]
    IN  [returned |-> extended, argument |-> extended]

\* cosignTx(undeadTx, cosignerAccounts): the value it returns and the value
\* its argument has afterwards
cosignTx(utx, cosigners) ==
    [returned |->
        [publicKey |-> utx.publicKey,
         aggregateTx |-> utx.aggregateTx,
         signatures |-> [i \in 1..Len(utx.signatures) |->
            [deadline |-> utx.signatures[i].deadline,
             hash |-> utx.signatures[i].hash,
             signature |-> utx.signatures[i].signature,
             cosignatures |-> utx.signatures[i].cosignatures
                                \o cosign(cosigners, utx.signatures[i].hash)]]],
     argument |-> utx]

\* a call of cosignTx: the caller keeps the returned value
CosignTx(cosigners) ==
    /\ UNCHANGED <<dvars, hvars, lvars, kvars, mvars, rvars, gvars>>
    /\ undeadTx # NoUndeadTx
    /\ cosigners # <<>>
    /\ \A i \in 1..Len(undeadTx.signatures) :
            Len(undeadTx.signatures[i].cosignatures) < 2
    /\ LET done == cosignTx(undeadTx, cosigners)
       IN  /\ undeadTx' = done.returned
           /\ cosignArg' = [before |-> undeadTx, after |-> done.argument]
    /\ UNCHANGED <<clock, casted, mempool, chainLocks, chainConfirmed, chainFailed>>
    /\ UNCHANGED <<built, thrown, json, restored>>

\* pickAndCastTx: the loop over undeadTx.signatures; 0 stands for undefined
RECURSIVE pickFromFirstFit(_, _, _, _)
pickFromFirstFit(signatures, i, picked, limit) ==
    IF i > Len(signatures) THEN picked
    ELSE IF signatures[i].deadline - marginMsecs > limit THEN picked
    ELSE i

RECURSIVE pickFromStrict(_, _, _, _)
pickFromStrict(signatures, i, picked, limit) ==
    IF i > Len(signatures) THEN picked
    ELSE IF signatures[i].deadline - marginMsecs >= limit THEN picked
    ELSE pickFromStrict(signatures, i + 1, i, limit)

RECURSIVE pickFrom(_, _, _, _)
pickFrom(signatures, i, picked, limit) ==
    IF i > Len(signatures) THEN picked
    ELSE IF signatures[i].deadline - marginMsecs > limit THEN picked
    ELSE pickFrom(signatures, i + 1, i, limit)

pickIgnoresShift(signatures, shift) ==
    pickFrom(signatures, 1, 0, deadlineCreate(0, deadlineUnitHours))
pick(signatures, shift) == pickFrom(signatures, 1, 0, deadlineCreate(shift, deadlineUnitHours))

toSignedTxKeepsDeadline(utx, life, cosigners) ==
    LET body == utx.aggregateTx
    IN  [signature |-> life,
         signedTx |-> [body |-> body, signature |-> life.signature,
                       signer |-> utx.publicKey,
                       hash |-> createTransactionHash(life.signature, utx.publicKey, body)],
         cosignatures |-> life.cosignatures \o cosign(cosigners, life.hash)]

\* toSignedTx with the extra cosigners signing the hash of the first life
toSignedTxCosignsFirstHash(utx, life, cosigners) ==
    LET body == aggregate(utx.aggregateTx.ops, life.deadline, utx.aggregateTx.maxFee)
    IN  [signature |-> life,
         signedTx |-> [body |-> body, signature |-> life.signature,
                       signer |-> utx.publicKey,
                       hash |-> createTransactionHash(life.signature, utx.publicKey, body)],
         cosignatures |-> life.cosignatures \o cosign(cosigners, utx.signatures[1].hash)]

\* toSignedTx / convertToSignedTx: the transaction rebuilt for a life
toSignedTx(utx, life, cosigners) ==
    LET body == aggregate(utx.aggregateTx.ops, life.deadline, utx.aggregateTx.maxFee)
    IN  [signature |-> life,
         signedTx |-> [body |-> body, signature |-> life.signature,
                       signer |-> utx.publicKey,
                       hash |-> createTransactionHash(life.signature, utx.publicKey, body)],
         cosignatures |-> life.cosignatures \o cosign(cosigners, life.hash)]

\* pickAndCastTx(undeadTx, cosignerAccounts, timeShiftSecs)
PickAndCastTx(cosigners, shift) ==
    /\ UNCHANGED <<dvars, hvars, lvars, kvars, mvars, rvars, gvars>>
    /\ undeadTx # NoUndeadTx
    /\ LET picked == pick(undeadTx.signatures, shift)
       IN  casted' = IF picked = 0 THEN {}
                     ELSE {toSignedTx(undeadTx, undeadTx.signatures[picked], cosigners)}
    /\ UNCHANGED <<clock, undeadTx, mempool, chainLocks, chainConfirmed, chainFailed>>
    /\ UNCHANGED bvars

\* announceTxWithCosignatures(castedTx.signedTx, castedTx.cosignatures)
AnnounceCasted(t) ==
    /\ UNCHANGED <<dvars, hvars, lvars, kvars, mvars, rvars, gvars>>
    /\ t \in casted
    /\ mempool' = mempool \cup {t.signedTx}
    /\ UNCHANGED <<clock, undeadTx, casted, chainLocks, chainConfirmed, chainFailed>>
    /\ UNCHANGED bvars

\* The network settles an announced transaction: it is confirmed when its
\* deadline is ahead by at most the maximum lifetime, its hash is new, its
\* signature is the signer's over its content, and every metadata key it
\* writes is unwritten for that source and target; else it gets a failure
\* status.
locksOf(ops) == {<<ops[k].source, ops[k].target, ops[k].key>> :
                    k \in {j \in 1..Len(ops) : ops[j].kind = "metadata"}}
accepts(tx) ==
    /\ clock < tx.body.deadline
    /\ tx.body.deadline <= clock + maxLifetimeHours * TicksPerHour
    /\ tx.hash \notin chainConfirmed
    /\ tx.signature = signRaw(tx.signer, tx.body)
    /\ locksOf(tx.body.ops) \cap chainLocks = {}

ChainSettle(tx) ==
    /\ UNCHANGED <<dvars, hvars, lvars, kvars, mvars, rvars, gvars>>
    /\ tx \in mempool
    /\ mempool' = mempool \ {tx}
    /\ IF accepts(tx)
       THEN /\ chainConfirmed' = chainConfirmed \cup {tx.hash}
            /\ chainLocks' = chainLocks \cup locksOf(tx.body.ops)
            /\ UNCHANGED chainFailed
       ELSE /\ chainFailed' = chainFailed \cup {tx.hash}
            /\ UNCHANGED <<chainConfirmed, chainLocks>>
    /\ UNCHANGED <<clock, undeadTx, casted>>
    /\ UNCHANGED bvars

\* time passes (the clock starts at the build: nothing depends on the time
\* before it)
Tick(d) ==
    /\ UNCHANGED <<dvars, hvars, lvars, kvars, mvars, rvars, gvars>>
    /\ undeadTx # NoUndeadTx
    /\ d > 0 /\ clock + d <= MaxClockHours * TicksPerHour
    /\ clock' = clock + d
    /\ UNCHANGED <<undeadTx, casted, mempool, chainLocks, chainConfirmed, chainFailed>>
    /\ UNCHANGED bvars

NextUndead ==
    \/ \E h \in 1..MaxTotalHours, cs \in CosignerLists, sh \in Shifts : CreateTx(h, <<Transfer>>, cs, sh)
    \/ \E cs \in CosignerLists : CosignTx(cs)
    \/ \E cs \in CosignerLists, sh \in Shifts : PickAndCastTx(cs, sh)
    \/ \E t \in casted : AnnounceCasted(t)
    \/ \E tx \in mempool : ChainSettle(tx)
    \/ \E d \in 1..TicksPerHour : Tick(d)

InitU == IdleDispatcher /\ IdleWait /\ InitUndead /\ IdleBatcher /\ IdleMerge /\ Elsewhere

SpecUndead == InitU /\ [][NextUndead]_vars

\* pickAndCastTx by itself: transactions of up to MaxPickHours, built now or
\* 4.5 hours ago, picked with the clock 10 hours ahead, on time, or 1 or 2
\* hours behind, as time passes
CreateShifts == {0, (9 * TicksPerHour) \div 2}
PickShifts == {0 - 10 * TicksPerHour, 0, TicksPerHour, 2 * TicksPerHour}

NextPick ==
    \/ \E h \in 1..MaxPickHours, sh \in CreateShifts : CreateTx(h, <<Transfer>>, <<>>, sh)
    \/ \E sh \in PickShifts : PickAndCastTx(<<>>, sh)
    \/ \E d \in 1..TicksPerHour : Tick(d)

SpecPick == InitU /\ [][NextPick]_vars

\* AggregateUndeadTransaction.VERSION
VERSION == "1.0"

\* AggregateUndeadTransaction.toJSON()
toJSON(utx) ==
    [version |-> VERSION,
     publicKey |-> utx.publicKey,
     aggregateTxPayload |-> serialize(utx.aggregateTx),
     signatures |-> [i \in 1..Len(utx.signatures) |->
        [deadline |-> utx.signatures[i].deadline,
         hash |-> utx.signatures[i].hash,
         signature |-> utx.signatures[i].signature,
         cosignatures |-> [k \in 1..Len(utx.signatures[i].cosignatures) |->
            LET cosignature == utx.signatures[i].cosignatures[k]
            IN  [parentHash |-> cosignature.parentHash,
                 signature |-> cosignature.signature,
                 signerPublicKey |-> cosignature.signerPublicKey,
                 version |-> toDTO(cosignature.version)]]]]]

\* createFromJSON leaving the cosignatures out
createFromJSONDropsCosignatures(dto) ==
    IF dto.version # VERSION
    THEN [error |-> "Version mismatched", value |-> NoUndeadTx]
    ELSE [error |-> "none",
          value |-> [publicKey |-> dto.publicKey,
                     aggregateTx |-> createFromPayload(dto.aggregateTxPayload),
                     signatures |-> [i \in 1..Len(dto.signatures) |->
                        [dto.signatures[i] EXCEPT !.cosignatures = <<>>]]]]

\* AggregateUndeadTransaction.createFromJSON(json)
createFromJSON(dto) ==
    IF dto.version # VERSION
    THEN [error |-> "Version mismatched", value |-> NoUndeadTx]
    ELSE [error |-> "none",
          value |-> [publicKey |-> dto.publicKey,
                     aggregateTx |-> createFromPayload(dto.aggregateTxPayload),
                     signatures |-> [i \in 1..Len(dto.signatures) |->
                        [dto.signatures[i] EXCEPT !.cosignatures =
                            [k \in 1..Len(dto.signatures[i].cosignatures) |->
                                LET cosignature == dto.signatures[i].cosignatures[k]
                                IN  [parentHash |-> cosignature.parentHash,
                                     signature |-> cosignature.signature,
                                     signerPublicKey |-> cosignature.signerPublicKey,
                                     version |-> UInt64(cosignature.version)]]]]]]

\* undeadTx.toJSON(): the caller stores the result
ToJSON ==
    /\ UNCHANGED <<dvars, hvars, lvars, kvars, mvars, rvars, gvars>>
    /\ undeadTx # NoUndeadTx
    /\ json # [dto |-> toJSON(undeadTx), source |-> undeadTx]
    /\ json' = [dto |-> toJSON(undeadTx), source |-> undeadTx]
    /\ UNCHANGED <<uvars, built, thrown, cosignArg, restored>>

\* AggregateUndeadTransaction.createFromJSON(json) of the stored result
CreateFromJSON ==
    /\ UNCHANGED <<dvars, hvars, lvars, kvars, mvars, rvars, gvars>>
    /\ json # NoJson
    /\ LET read == createFromJSON(json.dto)
       IN  /\ thrown' = read.error
           /\ restored' = IF read.error = "none"
                          THEN [value |-> read.value, source |-> json.source]
                          ELSE restored
    /\ restored' # restored
    /\ UNCHANGED <<uvars, built, cosignArg, json>>

\* building, extending and storing an undead transaction: the operation
\* lists the callers pass have 0, 1, 2, maxInnerTxs or maxInnerTxs + 1 entries
InnerCounts == {0, 1, 2, maxInnerTxs, maxInnerTxs + 1}
innerTxsOf(n) == [k \in 1..n |-> [kind |-> "transfer", key |-> k]]

NextBuild ==
    \/ \E h \in 1..MaxTotalHours, n \in InnerCounts, cs \in CosignerLists, sh \in CreateShifts :
            CreateTx(h, innerTxsOf(n), cs, sh)
    \/ \E cs \in CosignerLists : CosignTx(cs)
    \/ ToJSON
    \/ CreateFromJSON

SpecBuild == InitU /\ [][NextBuild]_vars

\* two undead transactions on one network: the second is built with the
\* arguments of the first but for its operations, its signer account and its
\* lock key (nonce), which are the first's or others
Signers == {Signer, "signer2"}
LockKeys == {1, 2}

\* a second call of createTx
CreateRival(signerAccount, nonce) ==
    /\ UNCHANGED <<dvars, hvars, lvars, bvars, kvars, mvars, gvars>>
    /\ undeadTx # NoUndeadTx
    /\ rival = NoUndeadTx
    /\ casted = {} /\ mempool = {} /\ chainConfirmed = {} /\ chainFailed = {}
    /\ rivalKey' = nonce
    /\ rival' = createTx(built.deadlineHours, innerTxsOf(2), signerAccount, nonce,
                         <<>>, built.shift).value
    /\ UNCHANGED uvars

\* pickAndCastTx(rival, cosignerAccounts, timeShiftSecs)
PickAndCastRival(cosigners, shift) ==
    /\ UNCHANGED <<dvars, hvars, lvars, bvars, kvars, mvars, gvars>>
    /\ rival # NoUndeadTx
    /\ LET picked == pick(rival.signatures, shift)
       IN  casted' = IF picked = 0 THEN {}
                     ELSE {toSignedTx(rival, rival.signatures[picked], cosigners)}
    /\ casted' # casted
    /\ UNCHANGED <<clock, undeadTx, mempool, chainLocks, chainConfirmed, chainFailed, rvars>>

NextLock ==
    \/ \E h \in {deadlineUnitHours, MaxLockHours} : CreateTx(h, <<Transfer>>, <<>>, 0)
    \/ \E a \in Signers, k \in LockKeys : CreateRival(a, k)
    \/ \E cs \in CosignerLists : PickAndCastTx(cs, 0)
    \/ \E cs \in CosignerLists : PickAndCastRival(cs, 0)
    \/ \E t \in casted : AnnounceCasted(t)
    \/ \E tx \in mempool : ChainSettle(tx)
    \/ Tick(TicksPerHour)

SpecLock == InitU /\ [][NextLock]_vars

\* ------------------------------------------------------ the batch builders
\* txPool.splice(0, count): the entries removed and the entries left
splice(pool, count) ==
    LET n == IF count < 0 THEN 0 ELSE Min(count, Len(pool))
    IN  [removed |-> SubSeq(pool, 1, n), rest |-> SubSeq(pool, n + 1, Len(pool))]

\* composeAggregateCompleteTx(feeMultiplier, requiredCosignatures, txs)
composeAggregateCompleteTx(requiredCosignatures, txs) ==
    createFromPayload(serialize(
        aggregate(txs, deadlineCreate(0, deadline_hours),
                  setMaxFeeForAggregate(txs, requiredCosignatures))))

\* buildSignedAggregateCompleteTxBatches: batches.map((batch) => ...)
signBatch(batch) ==
    LET signature == signRaw(Signer, batch)
        hash == createTransactionHash(signature, Signer, batch)
    IN  [signedTx |-> [body |-> batch, signature |-> signature, signer |-> Signer,
                       hash |-> hash],
         cosignatures |-> <<>>,
         maxFee |-> batch.maxFee]

BatchKinds == {"aggregate", "signed", "undead"}
\* the operation lists and batch sizes the callers pass
BatchLengths == 0..MaxOps \cup {batch_size, batch_size + 1}
BatchSizes == (0 - 1)..MaxBatchSize \cup {maxInnerTxs, batch_size, batch_size + 1}

\* buildAggregateCompleteTxBatches(txs, feeRatio, batchSize),
\* buildSignedAggregateCompleteTxBatches(txs, signerAccount, .., batchSize) or
\* buildTxBatches(deadlineHours, txs, signerAccount, .., batchSize) is called:
\* up to the do loop
BuildBatches(kind, txs, batchSize) ==
    /\ UNCHANGED <<dvars, hvars, lvars, uvars, bvars, mvars, rvars, gvars>>
    /\ batcher.state = "idle"
    /\ batcher' =
        IF kind = "undead" /\ batchSize > 99
        THEN [kind |-> kind, txs |-> txs, batchSize |-> batchSize, txPool |-> <<>>,
              batches |-> <<>>, state |-> "thrown",
              error |-> "Batch size must be 99 or less."]
        ELSE [kind |-> kind, txs |-> txs, batchSize |-> batchSize, txPool |-> txs,
              batches |-> <<>>, state |-> "running", error |-> "none"]

\* one iteration of the do loop, and the return when it was the last one; a
\* loop that removes nothing from a non-empty txPool is followed for MaxLoops
\* iterations
ComposeBatch ==
    /\ UNCHANGED <<dvars, hvars, lvars, uvars, bvars, mvars, rvars, gvars>>
    /\ batcher.state = "running"
    /\ batcher.batchSize >= 1 \/ Len(batcher.batches) < MaxLoops
    /\ LET taken == splice(batcher.txPool, batcher.batchSize)
           innerTxs == taken.removed
           made == createTx(deadlineUnitHours, innerTxs, Signer, Len(batcher.batches) + 1, <<>>, 0)
           batch == IF batcher.kind = "undead" THEN made.value
                    ELSE composeAggregateCompleteTx(0, innerTxs)
           pushed == Append(batcher.batches, batch)
       IN  batcher' =
            IF batcher.kind = "undead" /\ made.error # "none"
            THEN [batcher EXCEPT !.txPool = taken.rest, !.state = "thrown",
                                 !.error = made.error]
            ELSE IF Len(taken.rest) > 0
            THEN [batcher EXCEPT !.txPool = taken.rest, !.batches = pushed]
            ELSE [batcher EXCEPT !.txPool = taken.rest, !.state = "returned",
                                 !.batches = IF batcher.kind = "signed"
                                             THEN [k \in 1..Len(pushed) |-> signBatch(pushed[k])]
                                             ELSE pushed]

NextBatch ==
    \/ \E kind \in BatchKinds, n \in BatchLengths, batchSize \in BatchSizes :
            BuildBatches(kind, innerTxsOf(n), batchSize)
    \/ ComposeBatch

InitK == IdleDispatcher /\ IdleWait /\ IdleUndead /\ IdleBatcher /\ IdleMerge /\ Elsewhere

SpecBatch == InitK /\ [][NextBatch]_vars

\* ------------------------------------------ NecromancyService: properties
LifeHashes == {undeadTx.signatures[i].hash : i \in 1..Len(undeadTx.signatures)}
ConfirmedLives == {i \in 1..Len(undeadTx.signatures) :
                        undeadTx.signatures[i].hash \in chainConfirmed}

\* C1: of the lives of one undead transaction at most one is ever confirmed:
\* every cast life carries the lock operation of the build, so once a life is
\* confirmed the network confirms no transaction cast from the undead
\* transaction any more (each later broadcast gets a failure status).
C1_AtMostOneLifeConfirmed ==
    /\ Cardinality(chainConfirmed) <= 1
    /\ Cardinality(ConfirmedLives) <= 1
    /\ chainConfirmed \subseteq LifeHashes

C1_Witness ==
    /\ Cardinality(ConfirmedLives) = 1
    /\ \E t \in casted :
        /\ t.signedTx.hash \in chainFailed
        /\ t.signedTx.hash \notin chainConfirmed
        /\ clock < t.signedTx.body.deadline
        /\ t.signedTx.body.deadline <= clock + maxLifetimeHours * TicksPerHour

\* ------------------------------- waitTxsFor / listenTxs: more properties
Over == waitCall.state \in {"resolved", "rejected"}
Terminal(h) == status[h] \in {"confirmed", "failed"}

\* the executor of position i has run to its end and no message about its
\* hash is on its way
Quiet(i) ==
    /\ waitCall.state # "idle"
    /\ lookup[i] = "over"
    /\ \A m \in messages : m.hash # txHashes[i]

\* C11: for group = confirmed, whenever the network confirms or fails an
\* awaited transaction - before the subscriptions, between them and the
\* lookups, or after the lookups - the hash is resolved with the matching
\* outcome once its lookups have answered and the stream's messages about it
\* are delivered: no interleaving leaves a terminal state unobserved by
\* both the watchers and the lookups (no request or stream having failed).
C11_TerminalStateObserved ==
    \A i \in Requested :
        (group = "confirmed" /\ Terminal(txHashes[i]) /\ Quiet(i) /\ ~waitFault)
            => /\ promises[i].settled /\ ~promises[i].rejected
               /\ promises[i].txHash = txHashes[i]
               /\ promises[i].error = (status[txHashes[i]] = "failed")

C11_Witness ==
    /\ group = "confirmed" /\ ~waitFault
    /\ Len(txHashes) = 2 /\ txHashes[1] # txHashes[2]
    /\ waitCall.state = "resolved"
    /\ waitCall.results[1].error /\ ~waitCall.results[2].error
    /\ messages = {}
    /\ lookup[1] = "over" /\ lookup[2] = "over"
    /\ ~lateSeen[1] /\ ~lateSeen[2]

Watched == Requested \X watchedChannels(group)

\* C12: every watcher a wait subscribes is unsubscribed exactly once, only
\* when the call is over (every hash resolved, or the call rejected after a
\* watcher's stream raised an error), and no watcher of a finished call
\* stays subscribed.
C12_WatchersUnsubscribedOnce ==
    /\ \A i \in Positions, c \in Channels :
        /\ unsubscribed[i][c] <= 1
        /\ subscriptions[i][c] = "unsubscribed" => Over /\ unsubscribed[i][c] = 1
        /\ unsubscribed[i][c] = 1 => subscriptions[i][c] = "unsubscribed"
        /\ subscriptions[i][c] = "subscribed" => ~Over /\ <<i, c>> \in Watched
    /\ waitCall.state = "resolved" => \A i \in Requested : promises[i].settled
    /\ (Over /\ stream # "none") =>
            \A ic \in Watched : subscriptions[ic[1]][ic[2]] = "unsubscribed"

C12_Witness ==
    /\ waitCall.state = "rejected"
    /\ Len(txHashes) = 2
    /\ promises[1].settled /\ ~promises[1].rejected
    /\ promises[2].rejected
    /\ \A ic \in Watched : unsubscribed[ic[1]][ic[2]] = 1

\* C13: a wait opens one stream connection for all its hashes and, once it
\* is open, closes it exactly once, when the call resolves or rejects and
\* after the call's watchers are unsubscribed; it is open while the call is
\* pending.
C13_OneStreamClosedOnce ==
    /\ streamOpens <= 1 /\ streamCloses <= 1
    /\ waitCall.state # "idle" => streamOpens = 1
    /\ waitCall.state = "pending" => stream = "open" /\ streamCloses = 0
    /\ (Over /\ stream # "none") => stream = "closed" /\ streamCloses = 1
    /\ watchersAtClose = 0

C13_Witness ==
    /\ waitCall.state = "rejected"
    /\ Len(txHashes) = 2
    /\ stream = "closed" /\ streamCloses = 1 /\ streamOpens = 1
    /\ ~promises[1].settled

\* C14: a failure status, seen by the status watcher or by the status
\* lookup, becomes the result {txHash, error} of its hash and never rejects
\* the wait; a result without error comes only from a confirmed / partial
\* event or lookup of a group the call watches.
C14_FailureIsResult ==
    /\ \A i \in Requested :
        /\ promises[i].rejected => waitFault
        /\ (promises[i].settled /\ ~promises[i].rejected) =>
            /\ promises[i].txHash = txHashes[i]
            /\ promises[i].error => status[txHashes[i]] = "failed"
            /\ ~promises[i].error =>
                /\ status[txHashes[i]] # "unconfirmed"
                /\ group = "confirmed" => status[txHashes[i]] = "confirmed"
    /\ waitCall.state = "rejected" =>
            stream = "none" \/ \E i \in Requested : promises[i].rejected
    /\ (waitCall.state = "pending" /\ ~waitFault) =>
            \A i \in Requested :
                (status[txHashes[i]] = "failed" /\ Quiet(i)) =>
                    promises[i].settled /\ (firstSeen[i] = "error" <=> promises[i].error)

C14_Witness ==
    /\ waitCall.state = "resolved" /\ ~waitFault
    /\ Len(txHashes) = 2 /\ txHashes[1] # txHashes[2]
    /\ waitCall.results[1] = [txHash |-> txHashes[1], error |-> TRUE]
    /\ waitCall.results[2] = [txHash |-> txHashes[2], error |-> TRUE]
    /\ group = "all"

\* ------------------------------------------------ pickAndCastTx: properties
sigs == undeadTx.signatures
Lives == 1..Len(sigs)
unitMsecs == deadlineUnitHours * TicksPerHour
\* the time the pick clock shows, and the time a life has left on it
pickTime(shift) == clock - shift
slack(i, shift) == sigs[i].deadline - pickTime(shift)
HasSlack(shift) == {i \in Lives : slack(i, shift) >= marginMsecs}
Lowest(S) == CHOOSE i \in S : \A j \in S : i <= j
Highest(S) == CHOOSE i \in S : \A j \in S : i >= j
\* life i's deadline, less the margin, is within a unit of the pick time
InReach(i, shift) == sigs[i].deadline - marginMsecs <= pickTime(shift) + unitMsecs
\* the time since the build, on the clock the deadlines were set by (for a
\* transaction of a full first life)
elapsed == clock - (sigs[1].deadline - unitMsecs)
\* the first k lives exist and are a full unit apart
FullLives(k) == Len(sigs) >= k /\ sigs[k].deadline - sigs[1].deadline = (k - 1) * unitMsecs
castedLife(i) == \E t \in casted : t.signature = sigs[i]

FiveLives ==
    /\ Len(sigs) = 5
    /\ FullLives(4)
    /\ sigs[5].deadline - sigs[1].deadline = 19 * TicksPerHour
    /\ elapsed = 0

\* C17 as stated: for a 5-life transaction of 24 hours, pick with a shift of
\* -10 hours selects the last life.
C17_ShiftedPickIsLast ==
    FiveLives => pick(sigs, 0 - 10 * TicksPerHour) = Len(sigs)

\* C17 as amended: for a 5-life transaction of 24 hours, pick with a shift
\* of -10 hours selects the third life (index 2), not the last.
C17_ShiftedPickIsThird ==
    FiveLives => pick(sigs, 0 - 10 * TicksPerHour) = 3

C17_Witness ==
    /\ FiveLives
    /\ castedLife(3)

\* C18: pick returns a life whenever the undead transaction has one.
C18_PickFindsALife ==
    \A sh \in PickShifts : Lives # {} => pick(sigs, sh) # 0

\* C19: pick returns the life of the greatest index i such that every life
\* j <= i is in reach (deadline_j - margin <= pick time + unit); for full
\* lives of 5 hours and a margin of 1 hour that is life 0 right after the
\* build, life 1 when 4.5 hours have elapsed, and life 2 when the pick clock
\* runs 10 hours ahead.
C19_PicksLastInReach ==
    /\ \A sh \in PickShifts :
        LET G == {i \in Lives : \A j \in 1..i : InReach(j, sh)}
        IN  G # {} => pick(sigs, sh) = Highest(G)
    /\ (FullLives(2) /\ elapsed = 0) => pick(sigs, 0) = 1
    /\ (FullLives(3) /\ 2 * elapsed = 9 * TicksPerHour) => pick(sigs, 0) = 2
    /\ (FullLives(4) /\ elapsed = 0) => pick(sigs, 0 - 10 * TicksPerHour) = 3

C19_Witness ==
    /\ FullLives(3)
    /\ 2 * elapsed = 9 * TicksPerHour
    /\ pick(sigs, 0) = 2
    /\ castedLife(2)

opsOf(body) == {body.ops[k] : k \in 1..Len(body.ops)}

\* C20: casting any life of a built undead transaction rebuilds, from the
\* public key and the stored signature alone, the transaction that was
\* signed for that life at build time: same operations with the lock, the
\* life's deadline, same max fee, signer and signature, hence the stored hash.
C20_CastRebuildsSignedLife ==
    /\ \A i \in Lives, cs \in CosignerLists :
        LET tx == toSignedTx(undeadTx, sigs[i], cs).signedTx
        IN  /\ tx.hash = sigs[i].hash
            /\ tx.body = sigs[i].signature.over
            /\ tx.body.deadline = sigs[i].deadline
            /\ lockMetadata(Signer, 1) \in opsOf(tx.body)
            /\ tx.signer = Signer
            /\ tx.signature = signRaw(Signer, tx.body)
    /\ \A t \in casted : t.signedTx.hash = t.signature.hash

C20_Witness ==
    /\ Len(sigs) >= 2
    /\ \E t \in casted :
        /\ t.signature = sigs[2]
        /\ t.signedTx.hash = sigs[2].hash
        /\ t.signedTx.hash \in chainConfirmed

Built == built.called /\ thrown = "none" /\ undeadTx # NoUndeadTx
builtAt == built.at - built.shift

\* C22: createTx yields exactly ceil(totalHours / unitHours) lives; life i
\* (from 0) has the deadline build time (on the shifted clock) plus
\* min(unitHours * (i + 1), totalHours) hours, so the deadlines are strictly
\* increasing and the last one is exactly totalHours after the build.
C22_LivesCoverTheLifetime ==
    Built =>
        LET n == Len(undeadTx.signatures)
            hoursOf(i) == IF deadlineUnitHours * i < built.deadlineHours
                          THEN deadlineUnitHours * i ELSE built.deadlineHours
        IN  /\ n >= 1
            /\ deadlineUnitHours * (n - 1) < built.deadlineHours
            /\ built.deadlineHours <= deadlineUnitHours * n
            /\ built.signed = n
            /\ \A i \in 1..n :
                    undeadTx.signatures[i].deadline = builtAt + hoursOf(i) * TicksPerHour
            /\ \A i \in 1..(n - 1) :
                    undeadTx.signatures[i].deadline < undeadTx.signatures[i + 1].deadline
            /\ undeadTx.signatures[n].deadline = builtAt + built.deadlineHours * TicksPerHour

C22_Witness ==
    /\ Built
    /\ built.shift # 0
    /\ Len(undeadTx.signatures) = 3
    /\ undeadTx.signatures[3].deadline - undeadTx.signatures[2].deadline = TicksPerHour

\* what life i was signed over (the hash of a life is computed from it)
bodyOf(i) == undeadTx.signatures[i].hash.body
Extended == cosignArg # NoCosignArg

\* C23: the lives of one undead transaction are all built from the same
\* operation list, with the same single lock operation, and differ only in
\* their deadline; their hashes are pairwise distinct. cosignTx keeps it so.
C23_LivesDifferInDeadlineOnly ==
    Built =>
        LET n == Len(undeadTx.signatures)
            ops == bodyOf(1).ops
        IN  /\ Len(ops) = Len(built.innerTxs) + 1
            /\ \A k \in 1..Len(built.innerTxs) : ops[k] = built.innerTxs[k]
            /\ Cardinality({k \in 1..Len(ops) : ops[k].kind = "metadata"}) = 1
            /\ \A i \in 1..n :
                /\ bodyOf(i).ops = ops
                /\ bodyOf(i).maxFee = bodyOf(1).maxFee
                /\ bodyOf(i).deadline = undeadTx.signatures[i].deadline
                /\ undeadTx.signatures[i].hash.signer = undeadTx.publicKey
                /\ undeadTx.signatures[i].signature = signRaw(undeadTx.publicKey, bodyOf(i))
            /\ \A i, j \in 1..n : i # j =>
                /\ undeadTx.signatures[i].deadline # undeadTx.signatures[j].deadline
                /\ undeadTx.signatures[i].hash # undeadTx.signatures[j].hash

C23_Witness ==
    /\ Built
    /\ Extended
    /\ Len(undeadTx.signatures) = 3
    /\ Len(built.innerTxs) = 2

\* C24: createTx fails before signing anything, and produces no life, when
\* the operation list is empty or has more than 99 entries.
C24_BadListFailsBeforeSigning ==
    (built.called /\ (Len(built.innerTxs) < 1 \/ Len(built.innerTxs) > 99)) =>
        /\ thrown = IF Len(built.innerTxs) < 1
                    THEN "Empty inner transactions."
                    ELSE "Number of inner transactions must be 99 or less."
        /\ built.signed = 0
        /\ undeadTx = NoUndeadTx

C24_Witness ==
    /\ built.called
    /\ Len(built.innerTxs) = 100
    /\ thrown = "Number of inner transactions must be 99 or less."

\* C25: cosignTx is pure: it returns a new undead transaction with the same
\* signer, representative transaction, number and order of lives and the
\* same deadline, hash and signature in every life, whose cosignature lists
\* are the old lists followed by one fresh cosignature per extra cosigner
\* over the life's own hash; the argument is left as it was.
C25_CosignTxIsPure ==
    Extended =>
        LET old == cosignArg.before
            n == Len(old.signatures)
        IN  /\ cosignArg.after = old
            /\ undeadTx.publicKey = old.publicKey
            /\ undeadTx.aggregateTx = old.aggregateTx
            /\ Len(undeadTx.signatures) = n
            /\ \E extra \in 1..Cardinality(Cosigners) : \A i \in 1..n :
                LET was == old.signatures[i]
                    now == undeadTx.signatures[i]
                    kept == Len(was.cosignatures)
                IN  /\ now.deadline = was.deadline
                    /\ now.hash = was.hash
                    /\ now.signature = was.signature
                    /\ Len(now.cosignatures) = kept + extra
                    /\ \A k \in 1..kept : now.cosignatures[k] = was.cosignatures[k]
                    /\ \A k \in (kept + 1)..(kept + extra) :
                        /\ now.cosignatures[k].parentHash = was.hash
                        /\ now.cosignatures[k].signerPublicKey \in Cosigners
                        /\ now.cosignatures[k].signature =
                                signRaw(now.cosignatures[k].signerPublicKey, was.hash)

C25_Witness ==
    /\ Extended
    /\ Len(undeadTx.signatures) = 3
    /\ Len(cosignArg.after.signatures[3].cosignatures) = 1
    /\ Len(undeadTx.signatures[3].cosignatures) = 2

\* C26: for every built, and optionally extended, undead transaction u,
\* createFromJSON(u.toJSON()) equals u on all fields: signer public key,
\* representative transaction, and every life's deadline, hash, signature
\* and cosignatures (parent hash, signature, signer public key, version).
C26_JSONRoundTrip ==
    /\ restored # NoRestored => restored.value = restored.source
    /\ json # NoJson => createFromJSON(json.dto) = [error |-> "none", value |-> json.source]

C26_Witness ==
    /\ restored # NoRestored
    /\ restored.source = undeadTx
    /\ Extended
    /\ Len(restored.value.signatures) = 3
    /\ Len(restored.value.signatures[3].cosignatures) = 2
    /\ restored.value.signatures[3].cosignatures[2].version = UInt64(<<0, 0>>)

\* ------------------------------------ createSignedTxWithCosignatures
\* A payload is its sequence of bytes (the code holds it as a hex string, two
\* characters a byte).
\* `00000000${n.toString(16)}` cut to its last 8 characters: the 4 bytes of
\* n, most significant first
formatedSize(n) ==
    <<(n \div 16777216) % 256, (n \div 65536) % 256, (n \div 256) % 256, n % 256>>
\* formatedSize.substring(6, 8) + .substring(4, 6) + .substring(2, 4) + .substring(0, 2)
littleEndianSize(n) ==
    LET size == formatedSize(n) IN <<size[4], size[3], size[2], size[1]>>

\* the accounts whose cosignatures are merged, and the byte that fills the
\* public key and the signature of each
MergeCosigners == {"cosigner1", "cosigner2"}
byteOf(account) == IF account = "cosigner1" THEN 17 ELSE 34
bytes(n, b) == [k \in 1..n |-> b]
\* a CosignatureSignedTransaction: version (UInt64, toHex() gives 8 bytes),
\* signerPublicKey (32 bytes) and signature (64 bytes) of the cosigner
cosignatureOf(account, hash) ==
    [parentHash |-> hash, version |-> bytes(8, 0),
     signerPublicKey |-> bytes(32, byteOf(account)),
     signature |-> bytes(64, byteOf(account) + 1)]

\* the bytes appended, the signature of each cosignature before its signer
RECURSIVE appendedSignatureFirst(_, _)
appendedSignatureFirst(cosignatures, k) ==
    IF k > Len(cosignatures) THEN <<>>
    ELSE cosignatures[k].version \o cosignatures[k].signature
            \o cosignatures[k].signerPublicKey \o appendedSignatureFirst(cosignatures, k + 1)

\* cosignatureSignedTxs.forEach(.. payload += ..): the bytes appended
RECURSIVE appended(_, _)
appended(cosignatures, k) ==
    IF k > Len(cosignatures) THEN <<>>
    ELSE cosignatures[k].version \o cosignatures[k].signerPublicKey
            \o cosignatures[k].signature \o appended(cosignatures, k + 1)

\* createSignedTxWithCosignatures writing the size of the payload it was given
createSignedTxWithCosignaturesStaleSize(S, C) ==
    LET payload == S.payload \o appended(C, 1)
    IN  [payload |-> littleEndianSize(Len(S.payload)) \o SubSeq(payload, 5, Len(payload)),
         hash |-> S.hash, signerPublicKey |-> S.signerPublicKey, type |-> S.type,
         networkType |-> S.networkType]

\* createSignedTxWithCosignatures writing the size most significant byte first
createSignedTxWithCosignaturesBigEndian(S, C) ==
    LET payload == S.payload \o appended(C, 1)
    IN  [payload |-> formatedSize(Len(payload)) \o SubSeq(payload, 5, Len(payload)),
         hash |-> S.hash, signerPublicKey |-> S.signerPublicKey, type |-> S.type,
         networkType |-> S.networkType]

\* createSignedTxWithCosignatures taking the signer of the last cosignature
createSignedTxWithCosignaturesResigned(S, C) ==
    LET payload == S.payload \o appended(C, 1)
    IN  [payload |-> littleEndianSize(Len(payload)) \o SubSeq(payload, 5, Len(payload)),
         hash |-> S.hash,
         signerPublicKey |-> IF C = <<>> THEN S.signerPublicKey
                             ELSE C[Len(C)].signerPublicKey,
         type |-> S.type, networkType |-> S.networkType]

\* createSignedTxWithCosignatures(signedTx, cosignatureSignedTxs)
createSignedTxWithCosignatures(S, C) ==
    LET payload == S.payload \o appended(C, 1)
    IN  [payload |-> littleEndianSize(Len(payload)) \o SubSeq(payload, 5, Len(payload)),
         hash |-> S.hash, signerPublicKey |-> S.signerPublicKey, type |-> S.type,
         networkType |-> S.networkType]

\* the transactions given to it: payloads of up to MaxPayloadWords words of 8
\* bytes, whose size field is right (as signing leaves it) or zero
PayloadLengths == {8 * k : k \in 1..MaxPayloadWords}
payloadOf(n, hash, sized) ==
    (IF sized THEN littleEndianSize(n) ELSE bytes(4, 0))
        \o [k \in 1..(n - 4) |-> IF hash = "hashA" THEN k % 256 ELSE (k + 128) % 256]
SignedTxs ==
    {[payload |-> payloadOf(n, h, sized), hash |-> h, signerPublicKey |-> bytes(32, 1),
      type |-> "AGGREGATE_COMPLETE", networkType |-> "TEST_NET"] :
        n \in PayloadLengths, h \in Hashes, sized \in BOOLEAN}
RECURSIVE CosignatureLists(_, _)
CosignatureLists(hash, n) ==
    IF n = 0 THEN {<<>>}
    ELSE LET shorter == CosignatureLists(hash, n - 1)
         IN  shorter \cup {Append(C, cosignatureOf(a, hash)) :
                            C \in {c \in shorter : Len(c) = n - 1}, a \in MergeCosigners}

InitMerge ==
    /\ signedTx \in SignedTxs
    /\ cosignatureSignedTxs \in CosignatureLists(signedTx.hash, MaxCosignatures)
    /\ merged = NoSignedTx
    /\ moreCosignatureSignedTxs = <<>>
    /\ remerged = NoSignedTx

\* a call of createSignedTxWithCosignatures(signedTx, cosignatureSignedTxs)
MergeCosignatures ==
    /\ UNCHANGED <<dvars, hvars, lvars, uvars, bvars, kvars, rvars, gvars>>
    /\ merged = NoSignedTx
    /\ merged' = createSignedTxWithCosignatures(signedTx, cosignatureSignedTxs)
    /\ UNCHANGED <<signedTx, cosignatureSignedTxs, moreCosignatureSignedTxs, remerged>>

\* a call of createSignedTxWithCosignatures on the result of the first call,
\* with further cosignatures
MergeAgain(C) ==
    /\ UNCHANGED <<dvars, hvars, lvars, uvars, bvars, kvars, rvars, gvars>>
    /\ merged # NoSignedTx
    /\ remerged = NoSignedTx
    /\ \A k \in 1..Len(C) : C[k].parentHash = merged.hash
    /\ moreCosignatureSignedTxs' = C
    /\ remerged' = createSignedTxWithCosignatures(merged, C)
    /\ UNCHANGED <<signedTx, cosignatureSignedTxs, merged>>

NextMerge ==
    \/ MergeCosignatures
    \/ \E h \in Hashes : \E C \in CosignatureLists(h, MaxCosignatures) : MergeAgain(C)

InitM == IdleDispatcher /\ IdleWait /\ IdleUndead /\ IdleBatcher /\ InitMerge /\ Elsewhere

SpecMerge == InitM /\ [][NextMerge]_vars

\* ------------------------------------------------------------- getNetwork
\* SymbolService.getNetwork, called by the operations of one service instance.
\* The call tests this.network, and when it is null awaits the node's answers
\* one after the other and only then assigns this.network; the calls of other
\* operations run during the awaits.

\* what the node answers to getTransactionFees at the time of a fetch
NodeFees == {"low", "high"}

\* getNetwork up to its first await, or to its return when the cache is set
GetNetwork(c) ==
    /\ UNCHANGED <<dvars, hvars, lvars, uvars, bvars, kvars, mvars, rvars>>
    /\ netCall[c].state # "fetching"
    /\ IF network = NoNetwork
       THEN /\ fetches < MaxFetches
            /\ fetches' = fetches + 1
            /\ netCall' = [netCall EXCEPT ![c] =
                    [state |-> "fetching",
                     value |-> [fetch |-> fetches + 1, transactionFees |-> "none"]]]
            /\ UNCHANGED <<network, handedOut>>
       ELSE /\ netCall' = [netCall EXCEPT ![c] = [state |-> "returned", value |-> network]]
            /\ handedOut' = handedOut \cup {network}
            /\ UNCHANGED <<network, fetches>>
    /\ UNCHANGED fetchFailures

\* the last answer has arrived: this.network = {...}; return this.network
FetchDone(c, fees) ==
    /\ UNCHANGED <<dvars, hvars, lvars, uvars, bvars, kvars, mvars, rvars>>
    /\ netCall[c].state = "fetching"
    /\ network' = [netCall[c].value EXCEPT !.transactionFees = fees]
    /\ netCall' = [netCall EXCEPT ![c] = [state |-> "returned", value |-> network']]
    /\ handedOut' = handedOut \cup {network'}
    /\ UNCHANGED <<fetches, fetchFailures>>

\* one of the requests fails: the call rejects and leaves this.network alone
FetchFails(c) ==
    /\ UNCHANGED <<dvars, hvars, lvars, uvars, bvars, kvars, mvars, rvars>>
    /\ netCall[c].state = "fetching"
    /\ netCall' = [netCall EXCEPT ![c] = [state |-> "failed", value |-> NoNetwork]]
    /\ fetchFailures' = fetchFailures + 1
    /\ UNCHANGED <<network, fetches, handedOut>>

NextNetwork ==
    \/ \E c \in Callers : GetNetwork(c)
    \/ \E c \in Callers, fees \in NodeFees : FetchDone(c, fees)
    \/ \E c \in Callers : FetchFails(c)

InitG == IdleDispatcher /\ IdleWait /\ IdleUndead /\ IdleBatcher /\ IdleMerge /\ Elsewhere

SpecNetwork == InitG /\ [][NextNetwork]_vars

\* ----------------------------------------- the batch builders: properties
\* the operations the caller gave that are in a batch
opsIn(batch) ==
    IF batcher.kind = "undead"
    THEN SubSeq(batch.aggregateTx.ops, 1, Len(batch.aggregateTx.ops) - 1)
    ELSE IF batcher.kind = "signed" THEN batch.signedTx.body.ops
    ELSE batch.ops

RECURSIVE opsFrom(_, _)
opsFrom(bs, k) == IF k > Len(bs) THEN <<>> ELSE opsIn(bs[k]) \o opsFrom(bs, k + 1)

\* C27: for all operation lists of length L and batch sizes B the batch
\* builders return ceil(L / B) batches, each of at most B operations, whose
\* concatenation is the original operation list in its order.
C27_ChunkingIsExact ==
    (batcher.state = "returned" /\ batcher.batchSize >= 1) =>
        LET L == Len(batcher.txs)
            B == batcher.batchSize
            n == Len(batcher.batches)
        IN  /\ B * (n - 1) < L
            /\ L <= B * n
            /\ \A k \in 1..n : Len(opsIn(batcher.batches[k])) <= B
            /\ opsFrom(batcher.batches, 1) = batcher.txs

\* the per-aggregate operation ceiling a batch size is held against
ceilingOf(kind) == IF kind = "undead" THEN batch_size - 1 ELSE batch_size

\* C28: a call of a batch builder with a batchSize above the ceiling (100
\* for plain aggregates, 99 for undead batches) fails with a configuration
\* error and composes no batch.
C28_BatchSizeChecked ==
    (batcher.state # "idle" /\ batcher.batchSize > ceilingOf(batcher.kind)) =>
        /\ batcher.state = "thrown"
        /\ batcher.error # "none"
        /\ batcher.batches = <<>>

\* ------------------------- createSignedTxWithCosignatures: properties
Merged == merged # NoSignedTx

\* C29: createSignedTxWithCosignatures(S, C) has the hash, the signer public
\* key, the type and the network id of S; only the payload differs.
C29_MergeKeepsIdentity ==
    Merged =>
        /\ merged.hash = signedTx.hash
        /\ merged.signerPublicKey = signedTx.signerPublicKey
        /\ merged.type = signedTx.type
        /\ merged.networkType = signedTx.networkType
        /\ DOMAIN merged = DOMAIN signedTx

C29_Witness ==
    /\ Merged
    /\ Len(cosignatureSignedTxs) = 2
    /\ merged.payload # signedTx.payload
    /\ merged.hash = "hashB"

\* the first 4 bytes of a payload read as a little-endian unsigned integer
sizeField(payload) ==
    payload[1] + 256 * payload[2] + 65536 * payload[3] + 16777216 * payload[4]

\* C30: the first 4 bytes of the payload of createSignedTxWithCosignatures(S, C),
\* read as a little-endian unsigned integer, are the byte length of that
\* payload, which is len(S.payload) + 104 * |C|, for C empty too.
C30_SizeFieldIsLength ==
    Merged =>
        /\ sizeField(merged.payload) = Len(merged.payload)
        /\ Len(merged.payload) = Len(signedTx.payload) + 104 * Len(cosignatureSignedTxs)

C30_Witness ==
    /\ Merged
    /\ Len(cosignatureSignedTxs) = 1
    /\ Len(signedTx.payload) < 256
    /\ sizeField(signedTx.payload) = 0
    /\ merged.payload[2] = 1

Remerged == remerged # NoSignedTx

\* the 104 bytes the output holds for the k-th cosignature of a call on S
fieldsAt(out, S, k) == SubSeq(out.payload, Len(S.payload) + 104 * (k - 1) + 1,
                              Len(S.payload) + 104 * k)

\* what a call on S and C returning out must have left in out: the payload of
\* S from offset 4 on, then version, signer public key and signature of each
\* cosignature in the order of C
PayloadTail(out, S, C) ==
    /\ Len(out.payload) = Len(S.payload) + 104 * Len(C)
    /\ SubSeq(out.payload, 5, Len(S.payload)) = SubSeq(S.payload, 5, Len(S.payload))
    /\ \A k \in 1..Len(C) :
        /\ SubSeq(fieldsAt(out, S, k), 1, 8) = C[k].version
        /\ SubSeq(fieldsAt(out, S, k), 9, 40) = C[k].signerPublicKey
        /\ SubSeq(fieldsAt(out, S, k), 41, 104) = C[k].signature

\* C31: createSignedTxWithCosignatures does not change the transaction or the
\* cosignature list it is given, and the payload it returns is the payload it
\* was given from byte offset 4 on, followed by the 8-byte version, 32-byte
\* signer public key and 64-byte signature of each cosignature in list order;
\* only the 4 bytes of the size field are rewritten.
C31_MergeAppendsFieldsOnly ==
    /\ [](Merged => PayloadTail(merged, signedTx, cosignatureSignedTxs))
    /\ [](Remerged => PayloadTail(remerged, merged, moreCosignatureSignedTxs))
    /\ [][/\ signedTx' = signedTx
          /\ cosignatureSignedTxs' = cosignatureSignedTxs
          /\ Merged => merged' = merged
          /\ Remerged => moreCosignatureSignedTxs' = moreCosignatureSignedTxs]_vars

C31_Witness ==
    /\ Merged
    /\ Len(cosignatureSignedTxs) = 2
    /\ cosignatureSignedTxs[1].signerPublicKey # cosignatureSignedTxs[2].signerPublicKey
    /\ SubSeq(merged.payload, 1, 4) # SubSeq(signedTx.payload, 1, 4)

\* C38: merging composes: createSignedTxWithCosignatures of the result of
\* createSignedTxWithCosignatures(S, C1) and C2 equals
\* createSignedTxWithCosignatures(S, C1 followed by C2) in payload, hash and
\* signer; and merging the empty list into a payload whose size field is
\* right returns an equal payload.
C38_MergeComposes ==
    /\ Remerged =>
        LET once == createSignedTxWithCosignatures(
                        signedTx, cosignatureSignedTxs \o moreCosignatureSignedTxs)
        IN  /\ remerged.payload = once.payload
            /\ remerged.hash = once.hash
            /\ remerged.signerPublicKey = once.signerPublicKey
    /\ (Merged /\ cosignatureSignedTxs = <<>>
            /\ sizeField(signedTx.payload) = Len(signedTx.payload)) =>
        merged.payload = signedTx.payload
    /\ (Remerged /\ moreCosignatureSignedTxs = <<>>) => remerged.payload = merged.payload

C38_Witness ==
    /\ Remerged
    /\ Len(cosignatureSignedTxs) = 1
    /\ Len(moreCosignatureSignedTxs) = 2
    /\ sizeField(signedTx.payload) = 0
    /\ Len(remerged.payload) > 256

\* C39: the loops of the batch builders terminate for every operation list
\* and every batch size, batchSize <= 0 and the empty list included: every
\* iteration that leaves the loop running has taken at least one operation
\* out of txPool, so that the loop ends, with the batches or with an error,
\* after at most as many iterations as there are operations.
C39_LoopsTerminate ==
    [][(batcher.state = "running" /\ batcher'.state = "running") =>
            Len(batcher'.txPool) < Len(batcher.txPool)]_vars

\* ---------------------------------------------- pickAndCastTx: time window
\* C34: whenever pick returns a life, its deadline is at most unitHours +
\* marginHours after the pick time; when that life is not the last of the
\* list its deadline is also more than marginHours after the pick time. So,
\* unitHours + marginHours being within the network's maximum lifetime, a
\* cast life that is not the last one is neither expired nor too far ahead.
C34_PickedLifeIsInWindow ==
    \A sh \in PickShifts :
        LET picked == pick(sigs, sh) IN
        picked # 0 =>
            /\ sigs[picked].deadline <= pickTime(sh) + unitMsecs + marginMsecs
            /\ picked < Len(sigs) =>
                /\ sigs[picked].deadline > pickTime(sh) + marginMsecs
                /\ pickTime(sh) < sigs[picked].deadline
                /\ sigs[picked].deadline <= pickTime(sh) + maxLifetimeHours * TicksPerHour

C34_Witness ==
    /\ Len(sigs) >= 3
    /\ pick(sigs, 0) = 2
    /\ castedLife(2)
    /\ slack(1, 0) < marginMsecs
    /\ slack(2, 0) > unitMsecs

\* ------------------------------------------------ the lock: two transactions
hashesOf(utx) == {utx.signatures[i].hash : i \in 1..Len(utx.signatures)}
BothBuilt == undeadTx # NoUndeadTx /\ rival # NoUndeadTx
OneConfirmedOnly ==
    ~(hashesOf(undeadTx) \cap chainConfirmed # {} /\ hashesOf(rival) \cap chainConfirmed # {})

\* C33 as stated: when two undead transactions are built with the same lock
\* key and value, whatever accounts they are built, cast and broadcast from,
\* the first broadcast succeeds and the second reports a failure: never is a
\* life of each confirmed.
C33_SameKeyOneSucceeds ==
    (BothBuilt /\ rivalKey = built.nonce) => OneConfirmedOnly

\* C33 as amended: when two undead transactions are built by the same signer
\* account (source and target of the lock) with the same lock key and value,
\* and both are cast and broadcast, from whatever accounts, the first
\* broadcast succeeds and the second reports a failure.
C33_SameLockOneSucceeds ==
    (BothBuilt /\ rivalKey = built.nonce /\ rival.publicKey = undeadTx.publicKey) =>
        /\ OneConfirmedOnly
        /\ Cardinality(chainConfirmed) <= 1

C33_Witness ==
    /\ BothBuilt
    /\ rivalKey = built.nonce
    /\ rival.publicKey = undeadTx.publicKey
    /\ hashesOf(undeadTx) \cap chainConfirmed # {}
    /\ \E t \in casted :
        /\ Len(t.cosignatures) = 1
        /\ t.signedTx.hash \in hashesOf(rival)
        /\ t.signedTx.hash \in chainFailed
        /\ clock < t.signedTx.body.deadline
        /\ t.signedTx.body.deadline <= clock + maxLifetimeHours * TicksPerHour
\* C32: for any number of operations calling getNetwork in any interleaving,
\* the network parameters are fetched from the node on first access only (a
\* fetch is started again only after every earlier one has failed), and every
\* call returns the same unchanged context.
C32_FetchedOnceAndShared ==
    /\ fetches - fetchFailures <= 1
    /\ Cardinality(handedOut) <= 1

\* C35: for every value of maxParallel, the call returns undefined only if
\* every batch of the input was announced and its hash was observed confirmed.
C35_UndefinedMeansAllConfirmed ==
    call.undef =>
        \A b \in 1..Len(batches) : announced[b] >= 1 /\ observed[b] = "ok"

\* C36: once the call has returned, every batch whose confirmation wait
\* reported an error has its {txHash, error} record in the value returned.
C36_NoFailureDropped ==
    (call.settled /\ ~call.rejected) =>
        \A b \in 1..Len(batches) :
            observed[b] = "error" =>
                \E i \in 1..Len(call.errors) : call.errors[i] = ErrorRecord(b)

\* C37: batches are popped in input order, a worker announces its next batch
\* only after the wait for its previous batch has resolved, and with
\* maxParallel = 1 batch i + 1 is announced only after batch i was confirmed.
PoppedInOrder ==
    \A b \in 1..Len(batches) :
        handed[b] # {} => \A a \in 1..(b - 1) : handed[a] # {}
NextAfterWait ==
    \A w \in Workers : \A b \in 1..Len(batches) :
        (w \in handed[b] /\ b # cur[w]) => observed[b] # "none"
SerialAfterConfirmed ==
    maxParallel = 1 =>
        \A b \in 1..Len(batches) :
            announced[b] >= 1 => \A a \in 1..(b - 1) : observed[a] = "ok"
C37_FifoAndSerial == PoppedInOrder /\ NextAfterWait /\ SerialAfterConfirmed

====
